---- MODULE Spec2Model ----
(***************************************************************************)
(* JobPilot: the field resolver (utils/field-matcher.js), the suitability  *)
(* filter (components/job-analyzer.js), the form filler                    *)
(* (components/form-filler.js and its variants), the human prompts         *)
(* (utils/user-input.js) and the application flow (index.js,               *)
(* components/application-submitter.js).                                   *)
(*                                                                         *)
(* Texts are strings; JavaScript's String.prototype operations are         *)
(* operators over them (includes, toLowerCase, replace, trim).             *)
(***************************************************************************)
EXTENDS Integers, Sequences, FiniteSets, TLC

\* The resolver on a signal text.
VARIABLES
  fieldIdentifier,   \* matchField's argument: the signal text of a control
  baseIdentifier,    \* the signal text the edits started from
  edits,             \* number of case/separator edits applied to it
  matchedKey         \* matchField(fieldIdentifier), as the resolver returned it

\* The page of a job posting and its analysis.
VARIABLES
  pageText,          \* what page.textContent('body') returns: a text, or null
  lastFragment,      \* index of the last line put on the page
  fragmentCount,     \* number of lines on the page
  analysis           \* what analyzeJobOverview returned for pageText, or NotAnalyzed

\* FormFiller: one fillForm call.
VARIABLES
  fillerVariant,     \* which form-filler source runs: "basic", "current", "enhanced"
  personalDetails,   \* this.personalDetails: the profile the constructor was given
  flatDetails,       \* this.flatDetails
  controls,          \* the text-like controls of the page, in document order
  visitValues,       \* per control: the value it held when its pass visited it
  filledFields,      \* this.filledFields
  fillPc,            \* the pass fillForm is in
  cursor,            \* number of controls of the pass already visited
  asked,             \* <<control, userValue>> of each askForMissingField call, in order
  failed,            \* the controls on which an element operation threw
  fileInputs,        \* the input[type="file"] controls of the page and their files
  selects,           \* the select controls of the page and the option each shows
  surveyPage,        \* the choice widgets of the page: a question and its options, labels
  surveyState        \* what handleCheckboxesAndRadios has done with them

\* The run: JobSearchAutomation and ApplicationSubmitter.
VARIABLES
  submitterVariant,  \* which application-submitter source runs: "first", "analyzing"
  autoSubmit,        \* this.config.autoSubmit
  startupAnswer,     \* the line typed at the auto-submit prompt, or null
  maxApplications,   \* this.config.maxApplications
  flowPc,            \* where main / run / applyToJob stand
  queryIndex,        \* i of run()
  jobLinkCount,      \* jobLinks.length
  jobIndex,          \* j of run()
  totalApplications, \* totalApplications of run()
  job                \* what applyToJob has done for the job link it is on

resolverVars == << fieldIdentifier, baseIdentifier, edits, matchedKey >>
suitabilityVars == << pageText, lastFragment, fragmentCount, analysis >>
fillerVars == << fillerVariant, personalDetails, flatDetails, controls, visitValues, filledFields,
                 fillPc, cursor, asked, failed, fileInputs, selects, surveyPage,
                 surveyState >>

flowVars == << submitterVariant, autoSubmit, startupAnswer, maxApplications, flowPc,
              queryIndex, jobLinkCount, jobIndex, totalApplications, job >>

vars == << resolverVars, suitabilityVars, fillerVars, flowVars >>

(***************************************************************************)
(* Strings                                                                 *)
(***************************************************************************)

\* JavaScript's null / undefined result.
null == "<null>"

UpperLetters == "ABCDEFGHIJKLMNOPQRSTUVWXYZ"
LowerLetters == "abcdefghijklmnopqrstuvwxyz"
Digits == "0123456789"

CharAt(s, i) == SubSeq(s, i, i)

CharsOf(s) == { CharAt(s, i) : i \in 1..Len(s) }

UpperToLower == [ c \in CharsOf(UpperLetters) |->
                    CharAt(LowerLetters, CHOOSE i \in 1..26 : CharAt(UpperLetters, i) = c) ]

LowerToUpper == [ c \in CharsOf(LowerLetters) |->
                    CharAt(UpperLetters, CHOOSE i \in 1..26 : CharAt(LowerLetters, i) = c) ]

\* String.prototype.includes
includes(s, t) == \E i \in 0..(Len(s) - Len(t)) : SubSeq(s, i + 1, i + Len(t)) = t

lowerChar(c) == IF c \in DOMAIN UpperToLower THEN UpperToLower[c] ELSE c

\* String.prototype.toLowerCase
RECURSIVE toLowerCase(_)
toLowerCase(s) ==
  IF Len(s) = 0 THEN ""
  ELSE IF Len(s) = 1 THEN lowerChar(s)
  ELSE toLowerCase(SubSeq(s, 1, Len(s) \div 2))
         \o toLowerCase(SubSeq(s, Len(s) \div 2 + 1, Len(s)))

\* The regular expression class \s, on the characters the texts here use.
WhitespaceChars == { " ", "\t", "\n", "\r", "\f" }

\* The regular expression class [\s_-].
SeparatorChars == WhitespaceChars \cup { "_", "-" }

\* String.prototype.trim
RECURSIVE trim(_)
trim(s) ==
  IF Len(s) = 0 THEN ""
  ELSE IF CharAt(s, 1) \in WhitespaceChars THEN trim(SubSeq(s, 2, Len(s)))
  ELSE IF CharAt(s, Len(s)) \in WhitespaceChars THEN trim(SubSeq(s, 1, Len(s) - 1))
  ELSE s

\* Whether t occurs in s at position p.
startsWithAt(s, p, t) ==
  /\ p >= 1
  /\ p + Len(t) - 1 <= Len(s)
  /\ SubSeq(s, p, p + Len(t) - 1) = t

\* The positions at which t occurs in s.
Occurrences(s, t) == { i \in 1..(Len(s) - Len(t) + 1) : SubSeq(s, i, i + Len(t) - 1) = t }

Min(S) == CHOOSE x \in S : \A y \in S : x <= y
Max(S) == CHOOSE x \in S : \A y \in S : x >= y

\* F applied to the value of e, with e evaluated once.
Let(e, F(_)) == CHOOSE r \in { F(v) : v \in { e } } : TRUE

\* Whether every character of s[from..to] is in class.
allIn(s, from, to, class) == \A x \in from..to : CharAt(s, x) \in class

\* The last position of the longest run of class characters that starts at p
\* (p - 1 when s[p] is not in the class): a greedy [class]*.
runEndIn(s, p, class) ==
  IF \A i \in p..Len(s) : CharAt(s, i) \in class THEN (IF p > Len(s) THEN p - 1 ELSE Len(s))
  ELSE (CHOOSE i \in p..Len(s) :
          CharAt(s, i) \notin class /\ \A j \in p..(i - 1) : CharAt(s, j) \in class) - 1

\* The same for a negated class: a greedy [^excluded]*.
runEndNotIn(s, p, excluded) ==
  IF \A i \in p..Len(s) : CharAt(s, i) \notin excluded THEN (IF p > Len(s) THEN p - 1 ELSE Len(s))
  ELSE (CHOOSE i \in p..Len(s) :
          CharAt(s, i) \in excluded /\ \A j \in p..(i - 1) : CharAt(s, j) \notin excluded) - 1

(***************************************************************************)
(* Field resolver: utils/field-matcher.js                                  *)
(***************************************************************************)

\* The synonym table, in declaration order (Object.entries iterates in it).
FIELD_MAPPINGS ==
   <<
      [key |-> "firstName", variants |-> << "first_name", "firstname", "first-name", "given_name", "givenname" >>],
      [key |-> "lastName", variants |-> << "last_name", "lastname", "last-name", "family_name", "familyname", "surname" >>],
      [key |-> "fullName", variants |-> << "full_name", "fullname", "full-name", "name", "your_name", "yourname" >>],
      [key |-> "email", variants |-> << "email", "email_address", "e-mail", "emailaddress", "mail" >>],
      [key |-> "phone", variants |-> << "phone", "phone_number", "phonenumber", "telephone", "mobile", "cell" >>],
      [key |-> "dateOfBirth", variants |-> << "date_of_birth", "dob", "birth_date", "birthdate", "birthday" >>],
      [key |-> "city", variants |-> << "city", "town", "locality" >>],
      [key |-> "state", variants |-> << "state", "province", "region" >>],
      [key |-> "country", variants |-> << "country" >>],
      [key |-> "zipCode", variants |-> << "zip", "zipcode", "zip_code", "postal", "postalcode", "postal_code" >>],
      [key |-> "location", variants |-> << "location", "address" >>],
      [key |-> "linkedin", variants |-> << "linkedin", "linkedin_url", "linkedin_profile" >>],
      [key |-> "github", variants |-> << "github", "github_url", "github_username" >>],
      [key |-> "portfolio", variants |-> << "portfolio", "portfolio_url", "website", "personal_website" >>],
      [key |-> "authorized", variants |-> << "authorized", "work_authorization", "legally_authorized", "right_to_work" >>],
      [key |-> "requiresSponsorship", variants |-> << "sponsorship", "require_sponsorship", "visa_sponsorship", "need_sponsorship" >>],
      [key |-> "yearsOfExperience", variants |-> << "years_experience", "experience_years", "years_of_experience", "experience" >>],
      [key |-> "currentCompany", variants |-> << "current_company", "employer", "company" >>],
      [key |-> "currentTitle", variants |-> << "current_title", "job_title", "title", "position" >>],
      [key |-> "degree", variants |-> << "degree", "education_level", "highest_degree" >>],
      [key |-> "field", variants |-> << "field", "major", "field_of_study", "study_field" >>],
      [key |-> "university", variants |-> << "university", "school", "college", "institution" >>],
      [key |-> "graduationYear", variants |-> << "graduation_year", "grad_year", "year_graduated" >>],
      [key |-> "startDate", variants |-> << "start_date", "available_start", "availability", "notice_period" >>],
      [key |-> "gender", variants |-> << "gender", "sex" >>],
      [key |-> "ethnicity", variants |-> << "ethnicity", "race", "ethnic_background" >>],
      [key |-> "veteran", variants |-> << "veteran", "veteran_status", "military" >>],
      [key |-> "disability", variants |-> << "disability", "disability_status" >>],
      [key |-> "coverLetter", variants |-> << "cover_letter", "coverletter", "message", "additional_info" >>],
      [key |-> "referralSource", variants |-> << "referral", "how_did_you_hear", "source", "referral_source" >>]
   >>

\* s.replace(/[\s_-]/g, '')
RECURSIVE stripSeparators(_)
stripSeparators(s) ==
  IF Len(s) = 0 THEN ""
  ELSE IF Len(s) = 1 THEN (IF s \in SeparatorChars THEN "" ELSE s)
  ELSE stripSeparators(SubSeq(s, 1, Len(s) \div 2))
         \o stripSeparators(SubSeq(s, Len(s) \div 2 + 1, Len(s)))

\* A resolver that folds case but keeps the separators of the signal text.
normalizeKeepingSeparators(fieldId) == toLowerCase(fieldId)

\* const normalized = fieldIdentifier.toLowerCase().replace(/[\s_-]/g, '')
normalizeIdentifier(fieldId) == stripSeparators(toLowerCase(fieldId))

\* variants.map(v => v.replace(/[\s_-]/g, ''))
normalizedVariants ==
  [ k \in 1..Len(FIELD_MAPPINGS) |->
      [ v \in 1..Len(FIELD_MAPPINGS[k].variants) |->
          stripSeparators(FIELD_MAPPINGS[k].variants[v]) ] ]

\* A resolver that tests containment in one direction only.
variantMatchesOneWay(normalized, variant) == includes(normalized, variant)

\* normalized.includes(variant) || variant.includes(normalized)
variantMatches(normalized, variant) ==
  includes(normalized, variant) \/ includes(variant, normalized)

\* normalizedVariants.some(...)
someVariantMatches(normalized, k) ==
  \E v \in 1..Len(normalizedVariants[k]) : variantMatches(normalized, normalizedVariants[k][v])

\* The for loop of matchField from entry k on: the first entry with a matching
\* variant returns its key, the end of the table returns null.
RECURSIVE matchFrom(_, _)
matchFrom(normalized, k) ==
  IF k > Len(FIELD_MAPPINGS) THEN null
  ELSE IF someVariantMatches(normalized, k) THEN FIELD_MAPPINGS[k].key
  ELSE matchFrom(normalized, k + 1)

matchField(fieldId) == matchFrom(normalizeIdentifier(fieldId), 1)

(***************************************************************************)
(* Parts of the program that are not running                               *)
(***************************************************************************)

\* The jobInfo of the catch branch of analyzeJobOverview: {}.
emptyJobInfo == [ company |-> null, location |-> null, role |-> null ]

\* No analysis of the page has been made.
NotAnalyzed ==
  [ suitable |-> FALSE, reason |-> "<not analyzed>", jobInfo |-> emptyJobInfo,
    whyWorkHere |-> null ]

\* No signal text is being resolved.
ResolverIdle ==
  /\ fieldIdentifier = ""
  /\ baseIdentifier = ""
  /\ edits = 0
  /\ matchedKey = null

\* No page is open.
SuitabilityIdle ==
  /\ pageText = null
  /\ lastFragment = 0
  /\ fragmentCount = 0
  /\ analysis = NotAnalyzed

\* No profile has been handed to a FormFiller.
noProfile == [ section \in {} |-> "" ]

\* A page without choice widgets, and nothing done with them.
noSurveyPage == [ question |-> "", render |-> "none", options |-> << >>, labels |-> << >> ]
noSurveyState ==
  [ pc |-> "idle", checked |-> {}, visited |-> {}, threwAt |-> 0, selected |-> {} ]

\* No FormFiller has been constructed.
FillerIdle ==
  /\ fillerVariant = "current"
  /\ personalDetails = noProfile
  /\ flatDetails = << >>
  /\ controls = << >>
  /\ visitValues = << >>
  /\ filledFields = {}
  /\ fillPc = "idle"
  /\ cursor = 0
  /\ asked = << >>
  /\ failed = {}
  /\ fileInputs = << >>
  /\ selects = << >>
  /\ surveyPage = noSurveyPage
  /\ surveyState = noSurveyState

\* A number as configLoader.parseInt returns it: an integer, or NaN.
NaN == [ nan |-> TRUE, n |-> 0 ]
Integer(n) == [ nan |-> FALSE, n |-> n ]

\* No job is being processed.
noJob ==
  [ clicked |-> FALSE, fillInvoked |-> FALSE, confirmAsked |-> FALSE,
    confirmAnswer |-> null, confirmed |-> FALSE, submitInvoked |-> FALSE,
    submitted |-> FALSE, rejected |-> FALSE, result |-> "pending",
    afterCaptcha |-> "", challengeOnJobPage |-> FALSE, captchaWaited |-> FALSE ]

\* The run has not been started.
FlowIdle ==
  /\ submitterVariant = "analyzing"
  /\ autoSubmit = FALSE
  /\ startupAnswer = null
  /\ maxApplications = Integer(0)
  /\ flowPc = "idle"
  /\ queryIndex = 0
  /\ jobLinkCount = 0
  /\ jobIndex = 0
  /\ totalApplications = 0
  /\ job = noJob

(***************************************************************************)
(* The resolver on signal texts that differ in case and separators         *)
(***************************************************************************)

MaxEdits == 2

\* Signal texts as form controls carry them (name, id, label, placeholder).
BaseIdentifiers ==
  { "", "first_name", "firstName", "first-name", "given_name",
    "name", "e-mail", "zip", "xq" }

InitResolver ==
  /\ SuitabilityIdle
  /\ FillerIdle
  /\ FlowIdle
  /\ baseIdentifier \in BaseIdentifiers
  /\ fieldIdentifier = baseIdentifier
  /\ edits = 0
  /\ matchedKey = matchField(baseIdentifier)

\* The same signal with a separator character put in at position i.
InsertSeparator ==
  \E i \in 0..Len(fieldIdentifier), c \in { " ", "_", "-" } :
    /\ edits < MaxEdits
    /\ fieldIdentifier' = SubSeq(fieldIdentifier, 1, i) \o c
                            \o SubSeq(fieldIdentifier, i + 1, Len(fieldIdentifier))
    /\ edits' = edits + 1
    /\ matchedKey' = matchField(fieldIdentifier')
    /\ UNCHANGED << baseIdentifier, suitabilityVars, fillerVars, flowVars >>

\* The same signal with a separator character taken out.
RemoveSeparator ==
  \E i \in 1..Len(fieldIdentifier) :
    /\ edits < MaxEdits
    /\ CharAt(fieldIdentifier, i) \in SeparatorChars
    /\ fieldIdentifier' = SubSeq(fieldIdentifier, 1, i - 1)
                            \o SubSeq(fieldIdentifier, i + 1, Len(fieldIdentifier))
    /\ edits' = edits + 1
    /\ matchedKey' = matchField(fieldIdentifier')
    /\ UNCHANGED << baseIdentifier, suitabilityVars, fillerVars, flowVars >>

\* The same signal with the letter at position i in the other case.
ChangeCase ==
  \E i \in 1..Len(fieldIdentifier) :
    LET c == CharAt(fieldIdentifier, i) IN
    /\ edits < MaxEdits
    /\ c \in DOMAIN UpperToLower \cup DOMAIN LowerToUpper
    /\ fieldIdentifier' = SubSeq(fieldIdentifier, 1, i - 1)
                            \o (IF c \in DOMAIN UpperToLower THEN UpperToLower[c] ELSE LowerToUpper[c])
                            \o SubSeq(fieldIdentifier, i + 1, Len(fieldIdentifier))
    /\ edits' = edits + 1
    /\ matchedKey' = matchField(fieldIdentifier')
    /\ UNCHANGED << baseIdentifier, suitabilityVars, fillerVars, flowVars >>

NextResolver == InsertSeparator \/ RemoveSeparator \/ ChangeCase

SpecResolver == InitResolver /\ [][NextResolver]_vars

(***************************************************************************)
(* Claims about the resolver                                               *)
(***************************************************************************)

\* The table entries with a variant related to the normalized signal by
\* substring containment, in either direction.
MatchingEntries(fieldId) ==
  LET n == stripSeparators(toLowerCase(fieldId)) IN
  { k \in 1..Len(FIELD_MAPPINGS) :
      \E v \in 1..Len(FIELD_MAPPINGS[k].variants) :
        LET a == stripSeparators(FIELD_MAPPINGS[k].variants[v]) IN
        includes(n, a) \/ includes(a, n) }

(* C1: matchField is case- and separator-insensitive: a signal text edited  *)
(* only by changing letter case and by adding or removing whitespace,       *)
(* hyphen or underscore characters resolves to what the unedited text       *)
(* resolves to; "first_name", "firstName", "first-name" and "given_name",   *)
(* and every such edit of them, resolve to firstName.                       *)
C1_CaseAndSeparatorInsensitive ==
  /\ matchedKey = matchField(baseIdentifier)
  /\ baseIdentifier \in { "first_name", "firstName", "first-name", "given_name" }
       => matchedKey = "firstName"

\* An edited spelling of "given_name" (case and separators changed) resolved to firstName.
C1_Witness ==
  /\ baseIdentifier = "given_name"
  /\ edits >= 2
  /\ fieldIdentifier # baseIdentifier
  /\ \E i \in 1..Len(fieldIdentifier) : CharAt(fieldIdentifier, i) \in DOMAIN UpperToLower
  /\ matchedKey = "firstName"

(* C2: an empty signal text never matches: a signal that normalizes to the  *)
(* empty string (empty, or only separators) resolves to null.               *)
C2_EmptySignalNeverMatches ==
  stripSeparators(toLowerCase(fieldIdentifier)) = "" => matchedKey = null

(* C3: matchField returns the first key, in declaration order, that has a   *)
(* variant related to the normalized signal by containment in either        *)
(* direction, and null exactly when no key has one.                         *)
C3_FirstMatchingKeyInDeclarationOrder ==
  LET m == MatchingEntries(fieldIdentifier) IN
  IF m = {} THEN matchedKey = null
  ELSE /\ matchedKey # null
       /\ \E k \in m : /\ FIELD_MAPPINGS[k].key = matchedKey
                       /\ \A j \in m : k <= j

\* A signal that several keys match (firstName through a variant containing
\* it, fullName through a variant it contains) resolved to the earlier one.
C3_Witness ==
  /\ edits > 0
  /\ Cardinality(MatchingEntries(fieldIdentifier)) >= 2
  /\ 3 \in MatchingEntries(fieldIdentifier)
  /\ matchedKey = "firstName"

(***************************************************************************)
(* Suitability filter: components/job-analyzer.js                          *)
(***************************************************************************)

Letters == CharsOf(UpperLetters) \cup CharsOf(LowerLetters)

\* The class [a-zA-Z0-9\s&] of the company pattern.
CompanyChars == Letters \cup CharsOf(Digits) \cup WhitespaceChars \cup { "&" }

\* bodyText.match(/([A-Z][a-zA-Z0-9\s&]+)(?:\s+is|\s+helps|\s+provides)/),
\* group 1 trimmed: the leftmost capital letter from which a run of class
\* characters, taken as long as possible, is followed by whitespace and one
\* of the three verbs.
extractCompany(bodyText) ==
  LET verbs == { q \in 1..Len(bodyText) :
                   \/ startsWithAt(bodyText, q, "is")
                   \/ startsWithAt(bodyText, q, "helps")
                   \/ startsWithAt(bodyText, q, "provides") }
      ends == { j \in 1..Len(bodyText) :
                  \E q \in verbs : j + 1 <= q - 1
                                   /\ allIn(bodyText, j + 1, q - 1, WhitespaceChars) }
      cands == { c \in { i \in 1..Len(bodyText) : CharAt(bodyText, i) \in CharsOf(UpperLetters) }
                       \X ends :
                   /\ c[2] >= c[1] + 1
                   /\ allIn(bodyText, c[1] + 1, c[2], CompanyChars) }
  IN IF cands = {} THEN null
     ELSE LET i == Min({ c[1] : c \in cands })
              j == Max({ c[2] : c \in { d \in cands : d[1] = i } })
          IN trim(SubSeq(bodyText, i, j))

\* The group of /<word>[:\s]+([^.\n]+)/ when <word> ends right before p:
\* the separators are taken greedily and given back one at a time until a
\* character other than "." and newline follows them.
labelledGroupAt(text, p) ==
  LET r == runEndIn(text, p, WhitespaceChars \cup { ":" }) - p + 1
      ks == { k \in 1..r : p + k <= Len(text) /\ CharAt(text, p + k) \notin { ".", "\n" } }
  IN IF ks = {} THEN null
     ELSE LET g == p + Max(ks)
          IN SubSeq(text, g, runEndNotIn(text, g, { ".", "\n" }))

\* text.match(/<word>[s]?[:\s]+([^.\n]+)/i)[1] (pluralS: the pattern has [s]?),
\* null when there is no match.
labelledGroup(text, word, pluralS) ==
  LET lower == toLowerCase(text)
      after(i) == IF pluralS /\ startsWithAt(lower, i + Len(word), "s")
                  THEN i + Len(word) + 1 ELSE i + Len(word)
      starts == { i \in Occurrences(lower, word) : labelledGroupAt(text, after(i)) # null }
  IN IF starts = {} THEN null ELSE labelledGroupAt(text, after(Min(starts)))

\* The alternatives of the third location pattern, in the pattern's order.
LocationNames ==
  << "san francisco", "new york", "ny", "sf", "california", "india", "remote", "hybrid" >>

\* text.match(/(san francisco|new york|ny|sf|california|india|remote|hybrid)/i)[1]
namedLocation(text) ==
  LET lower == toLowerCase(text)
      hits == { i \in 1..Len(text) :
                  \E n \in 1..Len(LocationNames) : startsWithAt(lower, i, LocationNames[n]) }
  IN IF hits = {} THEN null
     ELSE LET i == Min(hits)
              n == Min({ x \in 1..Len(LocationNames) : startsWithAt(lower, i, LocationNames[x]) })
          IN SubSeq(text, i, i + Len(LocationNames[n]) - 1)

\* The loop over locationPatterns: the first pattern that matches gives the location.
extractLocation(bodyText) ==
  IF labelledGroup(bodyText, "location", FALSE) # null
    THEN labelledGroup(bodyText, "location", FALSE)
  ELSE IF labelledGroup(bodyText, "office", TRUE) # null
    THEN labelledGroup(bodyText, "office", TRUE)
  ELSE namedLocation(bodyText)

\* The alternatives of the role pattern; full[- ]?stack is spelled out.
RoleNames ==
  << "software", "frontend", "backend", "fullstack", "full-stack", "full stack",
     "engineer", "developer" >>

\* bodyText.match(/(software|frontend|backend|full[- ]?stack|engineer|developer)/i)
extractRole(bodyText) ==
  LET lower == toLowerCase(bodyText)
      hits == { i \in 1..Len(bodyText) :
                  \E n \in 1..Len(RoleNames) : startsWithAt(lower, i, RoleNames[n]) }
  IN IF hits = {} THEN "Software"
     ELSE LET i == Min(hits)
              n == Min({ x \in 1..Len(RoleNames) : startsWithAt(lower, i, RoleNames[x]) })
          IN SubSeq(bodyText, i, i + Len(RoleNames[n]) - 1)

extractJobDetails(bodyText, lowerText) ==
  [ company |-> extractCompany(bodyText),
    location |-> extractLocation(bodyText),
    role |-> extractRole(bodyText) ]

\* The matches of (\d+).?(\d+)? days? at p, each <<k, a, m, q>>: k digits, a
\* characters taken by .? (0 or 1), m digits of the second group (0: the group
\* did not take part), q the position after " day".
dayCountMatches(s, p) ==
  { c \in (1..(runEndIn(s, p, CharsOf(Digits)) - p + 1)) \X { 0, 1 } \X (0..Len(s)) :
      /\ c[2] = 1 => (p + c[1] <= Len(s) /\ CharAt(s, p + c[1]) # "\n")
      /\ p + c[1] + c[2] + c[3] - 1 <= Len(s)
      /\ allIn(s, p + c[1] + c[2], p + c[1] + c[2] + c[3] - 1, CharsOf(Digits))
      /\ startsWithAt(s, p + c[1] + c[2] + c[3], " day") }

\* What follows " day" in each office pattern: s? and then nothing ("any"),
\* " (a|per) week" ("week"), or " (?:a|per) week in (?:the|our) (.*?) office"
\* ("weekInOffice").
dayCountContinues(s, q, kind) ==
  \/ kind = "any"
  \/ /\ kind = "week"
     /\ \E sOpt \in { 0, 1 }, w \in { " a week", " per week" } :
          /\ sOpt = 1 => startsWithAt(s, q, "s")
          /\ startsWithAt(s, q + sOpt, w)
  \/ /\ kind = "weekInOffice"
     /\ \E sOpt \in { 0, 1 },
           w \in { " a week in the ", " a week in our ", " per week in the ", " per week in our " } :
          /\ sOpt = 1 => startsWithAt(s, q, "s")
          /\ startsWithAt(s, q + sOpt, w)
          /\ \E x \in (q + sOpt + Len(w))..Len(s) :
               /\ startsWithAt(s, x, " office")
               /\ \A y \in (q + sOpt + Len(w))..(x - 1) : CharAt(s, y) # "\n"

\* The match the backtracking search finds first: the longest first group,
\* then .? taking a character, then the longest second group.  << >> without
\* a match, else <<k, a, m>>: the lengths of (\d+), of .? and of (\d+)?.
dayCountMatch(s, p, kind) ==
  Let({ c \in dayCountMatches(s, p) :
          dayCountContinues(s, p + c[1] + c[2] + c[3] + 4, kind) },
      LAMBDA ms :
        IF ms = {} THEN << >>
        ELSE CHOOSE c \in ms :
               \A d \in ms : \/ c[1] > d[1]
                             \/ c[1] = d[1] /\ c[2] > d[2]
                             \/ c[1] = d[1] /\ c[2] = d[2] /\ c[3] >= d[3])

\* The first of the candidates <<position, match>>, by position, that has a
\* match; << >> when none has.
firstMatch(candidates) ==
  Let({ c \in candidates : c[2] # << >> },
      LAMBDA cs :
        IF cs = {} THEN << >> ELSE CHOOSE c \in cs : \A d \in cs : c[1] <= d[1])

\* match[1] || match[3] || '' of a pattern  <prefix>(.*?) office (\d+).?(\d+)? days?<rest>
\* whose prefix ends right before g: group 1 is the shortest text, without a
\* newline, after which the rest matches. << >> when there is no match at g.
officeGroupAt(s, g, kind) ==
  Let(firstMatch({ << n, dayCountMatch(s, g + n + 8, kind) >> :
                     n \in { n \in 0..(Len(s) - g + 1) :
                               /\ startsWithAt(s, g + n, " office ")
                               /\ \A y \in g..(g + n - 1) : CharAt(s, y) # "\n" } }),
      LAMBDA c :
        IF c = << >> THEN << >>
        ELSE << IF c[1] > 0 THEN SubSeq(s, g, g + c[1] - 1)
                ELSE IF c[2][3] > 0
                  THEN SubSeq(s, g + 8 + c[2][1] + c[2][2],
                              g + 8 + c[2][1] + c[2][2] + c[2][3] - 1)
                ELSE "" >>)

\* The places where one of the prefixes occurs in s, each with the position
\* right after the prefix.
prefixEnds(s, prefixes) ==
  { << x[1], x[1] + Len(x[2]) >> :
      x \in { x \in (1..Len(s)) \X prefixes : startsWithAt(s, x[1], x[2]) } }

\* lowerText.match(pattern) for the four officeRequirements, reduced to what
\* the loop reads: << >> without a match, else <<officeLocation>> with
\* officeLocation = match[1] || match[3] || ''.
officeRequirementMatch(lowerText, n) ==
  IF n \in { 1, 2 } THEN
    \* 1: /available to work in our (.*?) office (\d+).?(\d+)? days? (a|per) week/i
    \* 2: /work (?:from|in|at) our (.*?) office (\d+).?(\d+)? days?/i
    Let(firstMatch({ << e[1], officeGroupAt(lowerText, e[2], IF n = 1 THEN "week" ELSE "any") >> :
                       e \in prefixEnds(lowerText,
                                        IF n = 1 THEN { "available to work in our " }
                                        ELSE { "work from our ", "work in our ", "work at our " }) }),
        LAMBDA c : IF c = << >> THEN << >> ELSE c[2])
  ELSE IF n = 3 THEN
    \* /(\d+).?(\d+)? days? (?:a|per) week in (?:the|our) (.*?) office/i
    Let(firstMatch({ << i, dayCountMatch(lowerText, i, "weekInOffice") >> :
                       i \in { i \in 1..Len(lowerText) : CharAt(lowerText, i) \in CharsOf(Digits) } }),
        LAMBDA c : IF c = << >> THEN << >>
                   ELSE << SubSeq(lowerText, c[1], c[1] + c[2][1] - 1) >>)
  ELSE
    \* /in.office (\d+).?(\d+)? days?/i
    Let(firstMatch({ << i, dayCountMatch(lowerText, i + 10, "any") >> :
                       i \in { i \in 1..Len(lowerText) :
                                 /\ startsWithAt(lowerText, i, "in")
                                 /\ i + 2 <= Len(lowerText) /\ CharAt(lowerText, i + 2) # "\n"
                                 /\ startsWithAt(lowerText, i + 3, "office ") } }),
        LAMBDA c : IF c = << >> THEN << >>
                   ELSE << SubSeq(lowerText, c[1] + 10, c[1] + 10 + c[2][1] - 1) >>)

indiaLocations == { "india", "pune", "mumbai", "delhi", "bangalore", "hyderabad", "chennai" }

\* usLocations of the office-requirement loop.
officeUsLocations ==
  { "new york", "nyc", "san francisco", "sf", "california", "boston", "seattle", "austin" }

\* usLocations of the in-person check.
inPersonUsLocations ==
  { "san francisco", "new york", "california", "ny", "sf", "usa", "united states",
    "bucharest", "romania", "europe" }

\* The for loop over officeRequirements from pattern n on: the first pattern
\* that matches with a US office rejects.
RECURSIVE officeRequirementsFrom(_, _)
officeRequirementsFrom(lowerText, n) ==
  IF n > 4 THEN [ suitable |-> TRUE, reason |-> null ]
  ELSE Let(officeRequirementMatch(lowerText, n),
           LAMBDA match :
             IF /\ match # << >>
                /\ \E loc \in officeUsLocations :
                     includes(match[1], loc) \/ includes(lowerText, "office in " \o loc)
             THEN [ suitable |-> FALSE,
                    reason |-> "Requires in-office presence in "
                                 \o (IF match[1] # "" THEN match[1] ELSE "US location")
                                 \o " - You are in India and cannot attend in person" ]
             ELSE officeRequirementsFrom(lowerText, n + 1))

\* /work out of our ([^.]+)/i on lowerText, group 1; null without a match.
workOutOfOurGroup(lowerText) ==
  LET starts == { i \in Occurrences(lowerText, "work out of our ") :
                    i + 16 <= Len(lowerText) /\ CharAt(lowerText, i + 16) # "." }
  IN IF starts = {} THEN null
     ELSE LET g == Min(starts) + 16
          IN SubSeq(lowerText, g, runEndNotIn(lowerText, g, { "." }))

checkLocationRequirements(jobInfo, lowerText) ==
  LET location == toLowerCase(IF jobInfo.location = null THEN "" ELSE jobInfo.location)
      isFullTime == \/ includes(lowerText, "full time")
                    \/ includes(lowerText, "full-time")
                    \/ includes(lowerText, "employment type: full time")
      isOnSite == \/ includes(lowerText, "on-site")
                  \/ includes(lowerText, "on site")
                  \/ includes(lowerText, "location type: on-site")
      isIndiaLocation == \E loc \in indiaLocations :
                            includes(location, loc) \/ includes(lowerText, loc)
      requiresInPerson == \/ includes(lowerText, "in-person")
                          \/ includes(lowerText, "work from our offices")
                          \/ includes(lowerText, "anchor days")
                          \/ includes(lowerText, "come to the office")
                          \/ includes(lowerText, "work out of our")
      isUSLocation == \E loc \in inPersonUsLocations :
                         includes(location, loc) \/ includes(lowerText, loc)
  IN IF isFullTime /\ isOnSite /\ ~isIndiaLocation THEN
       [ suitable |-> FALSE,
         reason |-> "Full-time on-site position outside India - You are based in India and need remote work for international positions" ]
     ELSE
       Let(officeRequirementsFrom(lowerText, 1),
           LAMBDA office :
             IF ~office.suitable THEN office
             ELSE IF requiresInPerson /\ isUSLocation THEN
               [ suitable |-> FALSE,
                 reason |-> "Requires in-person work in international office - You are in India and cannot relocate without sponsorship" ]
             ELSE IF includes(lowerText, "need to be able to work out of our")
             THEN Let(workOutOfOurGroup(lowerText),
                      LAMBDA offices :
                        IF /\ offices # null
                           /\ \E o \in { "ny", "sf", "new york", "san francisco" } :
                                includes(offices, o)
                        THEN [ suitable |-> FALSE,
                               reason |-> "Requires working from " \o offices
                                            \o " office - You are in India" ]
                        ELSE [ suitable |-> TRUE, reason |-> null ])
             ELSE [ suitable |-> TRUE, reason |-> null ])

\* An authorization rule that rejects every mention of work authorization.
checkWorkAuthorizationOnAnyMention(lowerText) ==
  IF includes(lowerText, "authorized to work") /\ includes(lowerText, "united states")
  THEN [ suitable |-> FALSE,
         reason |-> "Explicitly requires US work authorization - You need visa sponsorship" ]
  ELSE [ suitable |-> TRUE, reason |-> null ]

checkWorkAuthorization(lowerText) ==
  LET requiresUSAuth == \/ includes(lowerText, "must be authorized to work")
                        \/ includes(lowerText, "required to be authorized")
                        \/ includes(lowerText, "you must have authorization")
  IN IF requiresUSAuth /\ includes(lowerText, "united states")
     THEN [ suitable |-> FALSE,
            reason |-> "Explicitly requires US work authorization - You need visa sponsorship" ]
     ELSE [ suitable |-> TRUE, reason |-> null ]

checkPositionType(jobInfo, lowerText) ==
  includes(lowerText, "intern") \/ includes(lowerText, "internship")

\* templates[0] of generateWhyWorkHere, with points[0] the first theme found.
generateWhyWorkHere(jobInfo, bodyText) ==
  LET company == IF jobInfo.company = null \/ jobInfo.company = "" THEN "this company"
                 ELSE jobInfo.company
      lower == toLowerCase(bodyText)
      point == IF includes(lower, "million") THEN "work with a product used by millions"
               ELSE IF includes(lower, "impact") \/ includes(lower, "impactful")
                 THEN "create impactful solutions"
               ELSE IF includes(lower, "mentor") THEN "learn from experienced mentors"
               ELSE IF includes(lower, "innovative") \/ includes(lower, "cutting-edge")
                 THEN "work on innovative technologies"
               ELSE "make a meaningful impact"
  IN "I am excited about the opportunity to join " \o company
       \o " as a Software Engineer Intern. With my strong foundation in full-stack development and proven track record through three successful internships, I am eager to contribute to building scalable solutions. As a Smart India Hackathon 2024 Grand Finale Winner, I bring both technical expertise and problem-solving skills. I am particularly drawn to "
       \o company \o "'s mission and the opportunity to " \o point \o "."

\* A pipeline that asks the authorization rule before the location rule.
analyzeJobOverviewAuthorizationFirst(bodyText) ==
  Let(toLowerCase(bodyText), LAMBDA lowerText :
  Let(extractJobDetails(bodyText, lowerText), LAMBDA jobInfo :
  Let(checkLocationRequirements(jobInfo, lowerText), LAMBDA locationCheck :
    IF ~checkWorkAuthorization(lowerText).suitable THEN
      [ suitable |-> FALSE, reason |-> checkWorkAuthorization(lowerText).reason,
        jobInfo |-> jobInfo, whyWorkHere |-> null ]
    ELSE IF ~locationCheck.suitable THEN
      [ suitable |-> FALSE, reason |-> locationCheck.reason, jobInfo |-> jobInfo,
        whyWorkHere |-> null ]
    ELSE IF ~checkPositionType(jobInfo, lowerText) THEN
      [ suitable |-> FALSE, reason |-> "Not an internship position", jobInfo |-> jobInfo,
        whyWorkHere |-> null ]
    ELSE
      [ suitable |-> TRUE, reason |-> null, jobInfo |-> jobInfo,
        whyWorkHere |-> generateWhyWorkHere(jobInfo, bodyText) ])))

\* The try block of analyzeJobOverview, on a page that has a text.
analyzeJobOverviewTry(bodyText) ==
  Let(toLowerCase(bodyText), LAMBDA lowerText :
  Let(extractJobDetails(bodyText, lowerText), LAMBDA jobInfo :
  Let(checkLocationRequirements(jobInfo, lowerText), LAMBDA locationCheck :
    IF ~locationCheck.suitable THEN
      [ suitable |-> FALSE, reason |-> locationCheck.reason, jobInfo |-> jobInfo,
        whyWorkHere |-> null ]
    ELSE IF ~checkWorkAuthorization(lowerText).suitable THEN
      [ suitable |-> FALSE, reason |-> checkWorkAuthorization(lowerText).reason,
        jobInfo |-> jobInfo, whyWorkHere |-> null ]
    ELSE IF ~checkPositionType(jobInfo, lowerText) THEN
      [ suitable |-> FALSE, reason |-> "Not an internship position", jobInfo |-> jobInfo,
        whyWorkHere |-> null ]
    ELSE
      [ suitable |-> TRUE, reason |-> null, jobInfo |-> jobInfo,
        whyWorkHere |-> generateWhyWorkHere(jobInfo, bodyText) ])))

\* An analysis whose catch branch rejects the job.
analyzeJobOverviewFailClosed(bodyText) ==
  IF bodyText = null
  THEN [ suitable |-> FALSE, reason |-> "Job analysis error", jobInfo |-> emptyJobInfo,
         whyWorkHere |-> null ]
  ELSE analyzeJobOverviewTry(bodyText)

\* analyzeJobOverview on the text page.textContent('body') gave; null (a page
\* without a body, or a read that failed) makes the try block throw, which
\* the catch turns into { suitable: true, jobInfo: {} }.
analyzeJobOverview(bodyText) ==
  IF bodyText = null
  THEN [ suitable |-> TRUE, reason |-> null, jobInfo |-> emptyJobInfo, whyWorkHere |-> null ]
  ELSE analyzeJobOverviewTry(bodyText)

(***************************************************************************)
(* The suitability filter on page texts                                    *)
(***************************************************************************)

MaxFragments == 4

\* Lines of a job posting; a page holds some of them, in this order.
PageFragments ==
  << "Acme Corp is hiring",
     "Employment type: Full time",
     "Location type: On-site",
     "London office",
     "Indianapolis office",
     "Remote",
     "Internship",
     "Are you authorized to work in the United States?",
     "You must be authorized to work in the United States",
     "Work from our New York office 3 days a week",
     "This role is in-person",
     "You must be authorized to work in the United Kingdom",
     "Join our international team" >>

InitSuitability ==
  /\ ResolverIdle
  /\ FillerIdle
  /\ FlowIdle
  /\ pageText \in { "", null }
  /\ lastFragment = 0
  /\ fragmentCount = 0
  /\ analysis = NotAnalyzed

\* The posting has one more line.
AppendFragment ==
  \E f \in (lastFragment + 1)..Len(PageFragments) :
    /\ pageText # null
    /\ fragmentCount < MaxFragments
    /\ pageText' = (IF pageText = "" THEN "" ELSE pageText \o "\n") \o PageFragments[f]
    /\ lastFragment' = f
    /\ fragmentCount' = fragmentCount + 1
    /\ analysis' = NotAnalyzed
    /\ UNCHANGED << resolverVars, fillerVars, flowVars >>

\* JobAnalyzer.analyzeJobOverview(page)
AnalyzeJobOverview ==
  /\ analysis = NotAnalyzed
  /\ analysis' = analyzeJobOverview(pageText)
  /\ UNCHANGED << pageText, lastFragment, fragmentCount, resolverVars, fillerVars,
                  flowVars >>

NextSuitability == AppendFragment \/ AnalyzeJobOverview

SpecSuitability == InitSuitability /\ [][NextSuitability]_vars

(***************************************************************************)
(* Claims about the suitability filter                                     *)
(***************************************************************************)

\* The reasons checkLocationRequirements gives.
IsLocationReason(reason) ==
  \/ reason = "Full-time on-site position outside India - You are based in India and need remote work for international positions"
  \/ startsWithAt(reason, 1, "Requires in-office presence in ")
  \/ startsWithAt(reason, 1, "Requires in-person work in international office")
  \/ startsWithAt(reason, 1, "Requires working from ")

\* Offices outside India that the postings name.
OutOfRegionOffices == { "london office", "indianapolis office", "new york office" }

\* A text with "full time", "on-site", an office outside India, and no "remote".
IsFullTimeOnSiteOutOfRegion(text) ==
  /\ text # null
  /\ includes(toLowerCase(text), "full time")
  /\ includes(toLowerCase(text), "on-site")
  /\ \E o \in OutOfRegionOffices : includes(toLowerCase(text), o)
  /\ ~includes(toLowerCase(text), "remote")

(* C8: every page text that contains "full time" and "on-site", names an    *)
(* office outside India and does not contain "remote" gets a not-accepted   *)
(* verdict from analyzeJobOverview, with a location reason.                 *)
C8_FullTimeOnSiteOutOfRegionRejected ==
  (analysis # NotAnalyzed /\ IsFullTimeOnSiteOutOfRegion(pageText))
    => (analysis.suitable = FALSE /\ IsLocationReason(analysis.reason))

(* C9: remote override: a page text rejected by the location rule as a      *)
(* full-time, on-site, out-of-region role is accepted by analyzeJobOverview *)
(* once the word "remote" is added to it.  The texts taken here are the     *)
(* ones the other two rules let through, so that only the location rule     *)
(* stands between the text and an accepted verdict.                         *)
C9_RemoteOverride ==
  ( /\ analysis # NotAnalyzed
    /\ IsFullTimeOnSiteOutOfRegion(pageText)
    /\ analysis.suitable = FALSE
    /\ IsLocationReason(analysis.reason)
    /\ checkWorkAuthorization(toLowerCase(pageText)).suitable
    /\ checkPositionType(analysis.jobInfo, toLowerCase(pageText)) )
    => analyzeJobOverview(pageText \o "\nRemote").suitable = TRUE

\* A text that asks about authorization and states none of the hard requirements.
AsksAuthorizationOnly(text) ==
  /\ text # null
  /\ includes(toLowerCase(text), "are you authorized to work")
  /\ ~includes(toLowerCase(text), "must be authorized to work")
  /\ ~includes(toLowerCase(text), "required to be authorized")
  /\ ~includes(toLowerCase(text), "you must have authorization")

(* C10: a page text that contains "are you authorized to work" and none of  *)
(* the hard-requirement phrases passes checkWorkAuthorization, whatever     *)
(* region names it contains, and the verdict of analyzeJobOverview for it   *)
(* never carries the authorization reason.                                  *)
C10_AuthorizationQuestionNotRejected ==
  AsksAuthorizationOnly(pageText)
    => /\ checkWorkAuthorization(toLowerCase(pageText)).suitable
       /\ analysis.reason # "Explicitly requires US work authorization - You need visa sponsorship"

\* A posting that asks the question, names the United States, and was accepted.
C10_Witness ==
  /\ AsksAuthorizationOnly(pageText)
  /\ includes(toLowerCase(pageText), "united states")
  /\ analysis # NotAnalyzed
  /\ analysis.suitable = TRUE
  /\ analysis.whyWorkHere # null

\* The regions the postings name for which the applicant, who is based in
\* India, holds no work authorization.
RegionsWithoutAuthorization == { "the united states", "the united kingdom" }

\* A text that asserts "must be authorized to work in [region]" for such a region.
AssertsAuthorizationRequired(text) ==
  /\ text # null
  /\ \E region \in RegionsWithoutAuthorization :
       includes(toLowerCase(text), "must be authorized to work in " \o region)

(* C11: every page text that asserts "must be authorized to work in         *)
(* [region]", for a region whose authorization the applicant lacks, is      *)
(* rejected by checkWorkAuthorization with the authorization reason, and    *)
(* gets a not-accepted verdict from analyzeJobOverview.                     *)
C11_AuthorizationAssertionRejected ==
  AssertsAuthorizationRequired(pageText)
    => /\ ~checkWorkAuthorization(toLowerCase(pageText)).suitable
       /\ checkWorkAuthorization(toLowerCase(pageText)).reason
            = "Explicitly requires US work authorization - You need visa sponsorship"
       /\ analysis # NotAnalyzed => analysis.suitable = FALSE

\* The three rules on the page text, each asked on its own.
locationRule == checkLocationRequirements(extractJobDetails(pageText, toLowerCase(pageText)),
                                         toLowerCase(pageText))
authorizationRule == checkWorkAuthorization(toLowerCase(pageText))
positionTypeRule == checkPositionType(extractJobDetails(pageText, toLowerCase(pageText)),
                                      toLowerCase(pageText))

\* The page has a text and analyzeJobOverview has returned for it.
TextAnalyzed == pageText # null /\ analysis # NotAnalyzed

(* C22: the suitability pipeline short-circuits in the order location rule, *)
(* authorization rule, position-type rule: the reason of the verdict is     *)
(* that of the first rule of this order that fails, whatever the later      *)
(* rules say, and the narrative answer is generated only when all three     *)
(* rules pass.                                                              *)
C22_PipelineShortCircuitOrder ==
  TextAnalyzed =>
    /\ ~locationRule.suitable
         => (~analysis.suitable /\ analysis.reason = locationRule.reason)
    /\ (locationRule.suitable /\ ~authorizationRule.suitable)
         => (~analysis.suitable /\ analysis.reason = authorizationRule.reason)
    /\ (locationRule.suitable /\ authorizationRule.suitable /\ ~positionTypeRule)
         => (~analysis.suitable /\ analysis.reason = "Not an internship position")
    /\ analysis.whyWorkHere # null
         <=> (locationRule.suitable /\ authorizationRule.suitable /\ positionTypeRule)
    /\ analysis.suitable
         <=> (locationRule.suitable /\ authorizationRule.suitable /\ positionTypeRule)

\* A page that fails all three rules was analyzed: the verdict carries the
\* reason of the location rule.
C22_Witness ==
  /\ TextAnalyzed
  /\ ~locationRule.suitable
  /\ ~authorizationRule.suitable
  /\ ~positionTypeRule
  /\ analysis.reason = locationRule.reason
  /\ analysis.reason # authorizationRule.reason

\* Whether the word at position p of the text, p the place of "intern", is
\* intern, interns, internship or internships.
isInternWordAt(lowerText, p) ==
  /\ p = 1 \/ CharAt(lowerText, p - 1) \notin CharsOf(LowerLetters)
  /\ \E ending \in { "", "s", "ship", "ships" } :
       LET after == p + Len("intern") IN
       /\ startsWithAt(lowerText, after, ending)
       /\ after + Len(ending) > Len(lowerText)
          \/ CharAt(lowerText, after + Len(ending)) \notin CharsOf(LowerLetters)

\* The text speaks of an intern or an internship.
IndicatesInternship(text) ==
  \E p \in Occurrences(toLowerCase(text), "intern") : isInternWordAt(toLowerCase(text), p)

(* C23: position-type gate: analyzeJobOverview returns an accepted verdict  *)
(* only for page texts that indicate an internship; for every page whose    *)
(* text does not indicate one, the verdict is not accepted.                 *)
C23_PositionTypeGate ==
  (analysis # NotAnalyzed /\ analysis.suitable)
    => (pageText # null /\ IndicatesInternship(pageText))

(***************************************************************************)
(* JavaScript values of the profile                                        *)
(***************************************************************************)

\* undefined, strings, booleans and numbers, as the profile holds them.
Undefined == [ t |-> "undefined", s |-> "", b |-> FALSE, n |-> 0 ]
Str(x) == [ t |-> "string", s |-> x, b |-> FALSE, n |-> 0 ]
Bool(x) == [ t |-> "boolean", s |-> "", b |-> x, n |-> 0 ]
Num(x) == [ t |-> "number", s |-> "", b |-> FALSE, n |-> x ]

\* The truth value JavaScript gives a value in a condition.
truthy(x) ==
  CASE x.t = "string" -> x.s # ""
    [] x.t = "boolean" -> x.b
    [] x.t = "number" -> x.n # 0
    [] OTHER -> FALSE

\* The decimal digits of a natural number.
RECURSIVE digitsOf(_)
digitsOf(n) ==
  IF n < 10 THEN CharAt(Digits, n + 1)
  ELSE digitsOf(n \div 10) \o CharAt(Digits, (n % 10) + 1)

\* The value of a run of decimal digits.
RECURSIVE valueOfDigits(_)
valueOfDigits(text) ==
  IF text = "" THEN 0
  ELSE 10 * valueOfDigits(SubSeq(text, 1, Len(text) - 1))
       + (CHOOSE d \in 0..9 : CharAt(Digits, d + 1) = CharAt(text, Len(text)))

\* parseInt(value, 10): an optional sign and the longest run of digits that
\* follows it; NaN when there is no digit there.
parseInt(value) ==
  LET negative == Len(value) > 0 /\ CharAt(value, 1) = "-"
      from == IF negative THEN 2 ELSE 1
      end == runEndIn(value, from, CharsOf(Digits))
  IN IF end < from THEN NaN
     ELSE Integer((IF negative THEN -1 ELSE 1) * valueOfDigits(SubSeq(value, from, end)))

\* a >= b of JavaScript for an integer a: false when b is NaN.
atLeast(a, b) == ~b.nan /\ a >= b.n

\* array.slice(0, end).length for an array of the given length.
sliceLength(length, end) ==
  IF end.nan THEN 0
  ELSE IF end.n < 0 THEN (IF length + end.n > 0 THEN length + end.n ELSE 0)
  ELSE IF end.n < length THEN end.n ELSE length

\* String(value)
String(x) ==
  CASE x.t = "string" -> x.s
    [] x.t = "boolean" -> (IF x.b THEN "true" ELSE "false")
    [] x.t = "number" -> digitsOf(x.n)
    [] OTHER -> "undefined"

\* obj?.[key]: the member of an object of the profile, undefined when the
\* object lacks it or is itself undefined.
member(obj, key) == IF key \in DOMAIN obj THEN obj[key] ELSE Undefined

\* getNestedValue(obj, path): path.split('.').reduce((current, key) => current?.[key], obj)
RECURSIVE getNestedValue(_, _)
getNestedValue(obj, path) ==
  IF Len(path) = 0 THEN obj
  ELSE getNestedValue(member(obj, path[1]), Tail(path))

(***************************************************************************)
(* flattenPersonalDetails: utils/field-matcher.js                          *)
(***************************************************************************)

\* The keys flattenPersonalDetails assigns, each with the path it is read from.
flatSlots ==
  <<
     [ key |-> "firstName", path |-> << "personalInfo", "firstName" >> ],
     [ key |-> "lastName", path |-> << "personalInfo", "lastName" >> ],
     [ key |-> "fullName", path |-> << "personalInfo", "fullName" >> ],
     [ key |-> "email", path |-> << "personalInfo", "email" >> ],
     [ key |-> "phone", path |-> << "personalInfo", "phone" >> ],
     [ key |-> "linkedin", path |-> << "personalInfo", "linkedin" >> ],
     [ key |-> "github", path |-> << "personalInfo", "github" >> ],
     [ key |-> "portfolio", path |-> << "personalInfo", "portfolio" >> ],
     [ key |-> "website", path |-> << "personalInfo", "website" >> ],
     [ key |-> "city", path |-> << "personalInfo", "location", "city" >> ],
     [ key |-> "state", path |-> << "personalInfo", "location", "state" >> ],
     [ key |-> "country", path |-> << "personalInfo", "location", "country" >> ],
     [ key |-> "zipCode", path |-> << "personalInfo", "location", "zipCode" >> ],
     [ key |-> "authorized", path |-> << "workAuthorization", "authorized" >> ],
     [ key |-> "requiresSponsorship", path |-> << "workAuthorization", "requiresSponsorship" >> ],
     [ key |-> "visaStatus", path |-> << "workAuthorization", "visaStatus" >> ],
     [ key |-> "startDate", path |-> << "availability", "startDate" >> ],
     [ key |-> "willingToRelocate", path |-> << "availability", "willingToRelocate" >> ],
     [ key |-> "yearsOfExperience", path |-> << "experience", "yearsOfExperience" >> ],
     [ key |-> "currentCompany", path |-> << "experience", "currentCompany" >> ],
     [ key |-> "currentTitle", path |-> << "experience", "currentTitle" >> ],
     [ key |-> "degree", path |-> << "education", "degree" >> ],
     [ key |-> "field", path |-> << "education", "field" >> ],
     [ key |-> "university", path |-> << "education", "university" >> ],
     [ key |-> "graduationYear", path |-> << "education", "graduationYear" >> ],
     [ key |-> "gender", path |-> << "demographics", "gender" >> ],
     [ key |-> "ethnicity", path |-> << "demographics", "ethnicity" >> ],
     [ key |-> "veteran", path |-> << "demographics", "veteran" >> ],
     [ key |-> "disability", path |-> << "demographics", "disability" >> ],
     [ key |-> "coverLetter", path |-> << "additionalInfo", "coverLetter" >> ],
     [ key |-> "referralSource", path |-> << "additionalInfo", "referralSource" >> ] >>

\* A flattening that reads the sections without optional chaining: a
\* profile that lacks one makes it throw, and no map is returned.
flattenWithoutOptionalChaining(profile) ==
  IF /\ \A i \in 1..Len(flatSlots) : flatSlots[i].path[1] \in DOMAIN profile
     /\ "location" \in DOMAIN profile["personalInfo"]
  THEN [ key \in { flatSlots[i].key : i \in 1..Len(flatSlots) } |->
           LET i == CHOOSE j \in 1..Len(flatSlots) : flatSlots[j].key = key
           IN getNestedValue(profile, flatSlots[i].path) ]
  ELSE << >>

flattenPersonalDetails(profile) ==
  [ key \in { flatSlots[i].key : i \in 1..Len(flatSlots) } |->
      LET i == CHOOSE j \in 1..Len(flatSlots) : flatSlots[j].key = key
      IN getNestedValue(profile, flatSlots[i].path) ]

\* The constructor of the current FormFiller: the flat profile, and the two
\* dynamic answers when the profile carries dynamicAnswers.
currentFlatDetails(profile) ==
  LET flat == flattenPersonalDetails(profile) IN
  IF "dynamicAnswers" \in DOMAIN profile
  THEN [ key \in DOMAIN flat \cup { "whyCompany", "companyName" } |->
           IF key \in { "whyCompany", "companyName" }
           THEN member(profile["dynamicAnswers"], key)
           ELSE flat[key] ]
  ELSE flat

\* this.flatDetails of a FormFiller of the given variant.
constructFlatDetails(variant, profile) ==
  IF variant = "current" THEN currentFlatDetails(profile)
  ELSE flattenPersonalDetails(profile)

\* this.flatDetails[key]
flatValue(flat, key) == IF key \in DOMAIN flat THEN flat[key] ELSE Undefined

\* personal-details.json: a complete profile, the same with the answers the
\* analysis of a posting adds, and a profile with a first name only.
Profiles ==
  << [ personalInfo |-> [ firstName |-> Str("Asha"), lastName |-> Str("Rao"),
                          fullName |-> Str("Asha Rao"),
                          email |-> Str("asha@example.com"),
                          location |-> [ city |-> Str("Pune"),
                                         country |-> Str("India") ] ],
       workAuthorization |-> [ authorized |-> Bool(TRUE),
                               requiresSponsorship |-> Bool(FALSE) ],
       availability |-> [ startDate |-> Str("2026-06-01") ],
       experience |-> [ yearsOfExperience |-> Num(0),
                        currentCompany |-> Str("Initech") ],
       additionalInfo |-> [ coverLetter |-> Str("Dear team") ] ],
     [ personalInfo |-> [ firstName |-> Str("Asha"), lastName |-> Str("Rao"),
                          fullName |-> Str("Asha Rao"),
                          email |-> Str("asha@example.com") ],
       experience |-> [ currentCompany |-> Str("Initech") ],
       dynamicAnswers |-> [ whyCompany |-> Str("I admire the mission"),
                            companyName |-> Str("Acme Corp") ] ],
     [ personalInfo |-> [ firstName |-> Str("Asha") ] ] >>

(***************************************************************************)
(* flattenPersonalDetails on profiles that lack sections                   *)
(***************************************************************************)

\* A profile in which every section is there and every field is set.
CompleteProfile ==
  [ personalInfo |->
      [ firstName |-> Str("Asha"), lastName |-> Str("Rao"), fullName |-> Str("Asha Rao"),
        email |-> Str("asha@example.com"), phone |-> Str("+91 20 5550 0100"),
        linkedin |-> Str("linkedin.com/in/asha"), github |-> Str("github.com/asha"),
        portfolio |-> Str("asha.example.com"), website |-> Str("asha.example.com"),
        location |-> [ city |-> Str("Pune"), state |-> Str("Maharashtra"),
                       country |-> Str("India"), zipCode |-> Str("411001") ] ],
    workAuthorization |->
      [ authorized |-> Bool(TRUE), requiresSponsorship |-> Bool(FALSE),
        visaStatus |-> Str("Citizen") ],
    availability |-> [ startDate |-> Str("2026-06-01"), willingToRelocate |-> Bool(FALSE) ],
    experience |->
      [ yearsOfExperience |-> Num(0), currentCompany |-> Str("Initech"),
        currentTitle |-> Str("Intern") ],
    education |->
      [ degree |-> Str("B.Tech"), field |-> Str("Computer Science"),
        university |-> Str("COEP"), graduationYear |-> Num(2027) ],
    demographics |->
      [ gender |-> Str("Female"), ethnicity |-> Str("Asian"), veteran |-> Str("No"),
        disability |-> Str("No") ],
    additionalInfo |->
      [ coverLetter |-> Str("Dear team"), referralSource |-> Str("Job Board") ] ]

\* The nested sections of a profile; location is a part of personalInfo.
ProfileSections ==
  { "personalInfo", "location", "workAuthorization", "availability", "experience",
    "education", "demographics", "additionalInfo" }

\* The complete profile without the sections in absent.
profileWithout(absent) ==
  [ section \in (DOMAIN CompleteProfile) \ absent |->
      IF section = "personalInfo" /\ "location" \in absent
      THEN [ field \in (DOMAIN CompleteProfile.personalInfo) \ { "location" } |->
               CompleteProfile.personalInfo[field] ]
      ELSE CompleteProfile[section] ]

ProfileInputs == { profileWithout(absent) : absent \in SUBSET ProfileSections }

\* A profile has been loaded and no FormFiller constructed yet.
InitProfile ==
  /\ ResolverIdle
  /\ SuitabilityIdle
  /\ FlowIdle
  /\ fillerVariant \in { "basic", "current", "enhanced" }
  /\ personalDetails \in ProfileInputs
  /\ flatDetails = << >>
  /\ controls = << >>
  /\ visitValues = << >>
  /\ filledFields = {}
  /\ fillPc = "idle"
  /\ cursor = 0
  /\ asked = << >>
  /\ failed = {}
  /\ fileInputs = << >>
  /\ selects = << >>
  /\ surveyPage = noSurveyPage
  /\ surveyState = noSurveyState

\* The constructor of a FormFiller: this.flatDetails = flattenPersonalDetails(personalDetails)
ConstructFormFiller ==
  /\ fillPc = "idle"
  /\ flatDetails' = constructFlatDetails(fillerVariant, personalDetails)
  /\ fillPc' = "constructed"
  /\ UNCHANGED << fillerVariant, personalDetails, controls, visitValues, filledFields,
                  cursor, asked, failed, fileInputs, selects, surveyPage, surveyState, resolverVars,
                  suitabilityVars, flowVars >>

NextProfile == ConstructFormFiller

SpecProfile == InitProfile /\ [][NextProfile]_vars

\* Whether the profile has what the path of a slot goes through.
SectionPresent(profile, path) ==
  /\ path[1] \in DOMAIN profile
  /\ Len(path) = 3 => path[2] \in DOMAIN profile[path[1]]

\* The value the profile holds at the end of a path through present sections.
SourceValue(profile, path) ==
  IF Len(path) = 3 THEN profile[path[1]][path[2]][path[3]] ELSE profile[path[1]][path[2]]

(* C16: flattenPersonalDetails is total on missing sections: for a profile  *)
(* that lacks any subset of the nested sections it returns a map with a     *)
(* slot for every key, in which the keys of an absent section carry no      *)
(* value and the keys of a present section carry the value of the profile;  *)
(* the profile itself is left as it was.                                    *)
C16_FlattenTotalOnMissingSections ==
  /\ [](fillPc = "constructed" =>
          \A i \in 1..Len(flatSlots) :
            /\ flatSlots[i].key \in DOMAIN flatDetails
            /\ flatDetails[flatSlots[i].key]
                 = IF SectionPresent(personalDetails, flatSlots[i].path)
                   THEN SourceValue(personalDetails, flatSlots[i].path)
                   ELSE Undefined)
  /\ [][personalDetails' = personalDetails]_vars

\* A profile without education and without location was flattened: degree
\* and city carry no value, firstName carries the profile's.
C16_Witness ==
  /\ fillPc = "constructed"
  /\ "education" \notin DOMAIN personalDetails
  /\ "personalInfo" \in DOMAIN personalDetails
  /\ "location" \notin DOMAIN personalDetails.personalInfo
  /\ flatDetails["degree"] = Undefined
  /\ flatDetails["city"] = Undefined
  /\ flatDetails["firstName"] = Str("Asha")

(* C17: every canonical key of the resolver's vocabulary, that is every key *)
(* of FIELD_MAPPINGS, has a slot in the map flattenPersonalDetails returns, *)
(* whatever the profile.                                                    *)
C17_EveryResolverKeyHasSlot ==
  fillPc = "constructed" =>
    \A i \in 1..Len(FIELD_MAPPINGS) : FIELD_MAPPINGS[i].key \in DOMAIN flatDetails

(***************************************************************************)
(* Human prompts: utils/user-input.js                                      *)
(***************************************************************************)

\* UserInput.prompt resolves with answer.trim().
prompt(answer) == trim(answer)

\* UserInput.askForMissingField(fieldName, fieldLabel), on the line typed.
askForMissingField(answer) == prompt(answer)

(***************************************************************************)
(* FormFiller on the text-like controls of a page                          *)
(***************************************************************************)

\* array.filter(Boolean).join(' ')
RECURSIVE joinNonEmpty(_)
joinNonEmpty(parts) ==
  IF Len(parts) = 0 THEN ""
  ELSE LET rest == joinNonEmpty(Tail(parts)) IN
       IF Head(parts) = "" THEN rest
       ELSE IF rest = "" THEN Head(parts)
       ELSE Head(parts) \o " " \o rest

\* let label = ''; if (id) { labelElement = page.$(`label[for="${id}"]`); ... }
labelOf(c) == IF c.id # "" /\ c.label # null THEN c.label ELSE ""

\* const fieldIdentifier = [name, id, label, placeholder, ariaLabel].filter(Boolean).join(' ')
fieldIdentifierOf(c) ==
  joinNonEmpty(<< c.name, c.id, labelOf(c), c.placeholder, c.ariaLabel >>)

\* currentValue && currentValue.trim() !== ''
alreadyFilled(c) == c.value # "" /\ trim(c.value) # ""

\* await element.getAttribute('required'), as a condition: the attribute is
\* there and its value is not the empty string.
requiredAttribute(c) == c.required # null /\ c.required # ""

\* What a call on one control did: the control's value after it, the key
\* added to filledFields, whether the human was asked and what
\* askForMissingField returned, whether it threw.
leftAlone(c) ==
  [ value |-> c.value, filledKey |-> null, asked |-> FALSE, userValue |-> null,
    threw |-> FALSE ]
thrown(c, wasAsked, userValue) ==
  [ value |-> c.value, filledKey |-> null, asked |-> wasAsked, userValue |-> userValue,
    threw |-> TRUE ]

\* await element.fill(value); this.filledFields.add(key)
fillWith(c, text, key, fail) ==
  IF fail = "fill" THEN thrown(c, FALSE, null)
  ELSE [ value |-> text, filledKey |-> key, asked |-> FALSE, userValue |-> null,
         threw |-> FALSE ]

\* A required branch in which an empty answer is an error.
requiredBranchThrowsOnEmpty(c, answer, fail) ==
  IF c.required # null /\ c.required # ""
  THEN IF trim(answer) # ""
       THEN IF fail = "fill" THEN thrown(c, TRUE, trim(answer))
            ELSE [ value |-> trim(answer), filledKey |-> null, asked |-> TRUE,
                   userValue |-> trim(answer), threw |-> FALSE ]
       ELSE thrown(c, TRUE, "")
  ELSE leftAlone(c)

\* else if (await element.getAttribute('required')) { askForMissingField ... fill }
requiredBranch(c, answer, fail) ==
  IF requiredAttribute(c)
  THEN LET userValue == askForMissingField(answer) IN
       IF userValue # ""
       THEN IF fail = "fill" THEN thrown(c, TRUE, userValue)
            ELSE [ value |-> userValue, filledKey |-> null, asked |-> TRUE,
                   userValue |-> userValue, threw |-> FALSE ]
       ELSE [ value |-> c.value, filledKey |-> null, asked |-> TRUE, userValue |-> "",
              threw |-> FALSE ]
  ELSE leftAlone(c)

\* fillInputField of the basic FormFiller and of EnhancedFormFiller, which
\* read the current value only once a profile value was found.
basicFillInputField(c, flat, answer, fail) ==
  IF fail = "read" THEN thrown(c, FALSE, null)
  ELSE LET key == matchField(fieldIdentifierOf(c)) IN
       IF key # null /\ truthy(flatValue(flat, key))
       THEN IF alreadyFilled(c) THEN leftAlone(c)
            ELSE fillWith(c, String(flatValue(flat, key)), key, fail)
       ELSE requiredBranch(c, answer, fail)

\* element.fill(value) with a value taken from the profile as it is: Playwright
\* throws on a value that is not a string.
fillRaw(c, value, key, fail) ==
  IF value.t # "string" THEN thrown(c, FALSE, null) ELSE fillWith(c, value.s, key, fail)

\* fillInputField of the current FormFiller.
currentFillInputField(c, flat, answer, fail) ==
  IF fail = "read" THEN thrown(c, FALSE, null)
  ELSE IF alreadyFilled(c) THEN leftAlone(c)
  ELSE LET lowerIdentifier == toLowerCase(fieldIdentifierOf(c))
           dateValue == IF truthy(flatValue(flat, "expectedStartDate"))
                        THEN flatValue(flat, "expectedStartDate")
                        ELSE flatValue(flat, "startDate")
           key == matchField(fieldIdentifierOf(c))
       IN IF /\ includes(lowerIdentifier, "start date") \/ includes(lowerIdentifier, "expected start")
             /\ truthy(dateValue)
          THEN fillRaw(c, dateValue, "expectedStartDate", fail)
          ELSE IF key # null /\ truthy(flatValue(flat, key))
          THEN fillWith(c, String(flatValue(flat, key)), key, fail)
          ELSE requiredBranch(c, answer, fail)

\* The phrases of a company-specific question.
companyQuestionPhrases ==
  { "what makes you", "good fit", "why do you want", "why this company", "why join" }

\* A fillTextareaField that knows one phrase of a company question only.
fillTextareaFieldOnePhrase(c, flat, fail) ==
  IF fail = "read" THEN thrown(c, FALSE, null)
  ELSE IF alreadyFilled(c) THEN leftAlone(c)
  ELSE LET lowerIdentifier == toLowerCase(fieldIdentifierOf(c))
           key == matchField(fieldIdentifierOf(c))
       IN IF /\ includes(lowerIdentifier, "why this company")
             /\ truthy(flatValue(flat, "whyCompany"))
          THEN fillRaw(c, flatValue(flat, "whyCompany"), "whyCompany", fail)
          ELSE IF key # null /\ truthy(flatValue(flat, key))
          THEN fillWith(c, String(flatValue(flat, key)), key, fail)
          ELSE leftAlone(c)

\* fillTextareaField of the current FormFiller.
currentFillTextareaField(c, flat, fail) ==
  IF fail = "read" THEN thrown(c, FALSE, null)
  ELSE IF alreadyFilled(c) THEN leftAlone(c)
  ELSE LET lowerIdentifier == toLowerCase(fieldIdentifierOf(c))
           key == matchField(fieldIdentifierOf(c))
       IN IF /\ \E phrase \in companyQuestionPhrases : includes(lowerIdentifier, phrase)
             /\ truthy(flatValue(flat, "whyCompany"))
          THEN fillRaw(c, flatValue(flat, "whyCompany"), "whyCompany", fail)
          ELSE IF key # null /\ truthy(flatValue(flat, key))
          THEN fillWith(c, String(flatValue(flat, key)), key, fail)
          ELSE leftAlone(c)

\* The passes of fillForm, in the order each variant runs them.
passOrder(variant) ==
  CASE variant = "basic" ->
         << "textInputs", "textareas", "selects", "checks", "upload" >>
    [] variant = "current" ->
         << "upload", "textInputs", "textareas", "selects", "checks" >>
    [] variant = "enhanced" ->
         << "textInputs", "textareas", "selects", "dates", "checks",
            "customDropdowns", "upload" >>

firstPass(variant) == passOrder(variant)[1]

\* The pass fillForm runs after pass p; "done" after the last: return true.
nextPass(variant, p) ==
  LET order == passOrder(variant)
      i == CHOOSE j \in 1..Len(order) : order[j] = p
  IN IF i = Len(order) THEN "done" ELSE order[i + 1]

\* page.$$('input[type="text"], ...') and page.$$('textarea'), as positions in
\* the document.
controlsOfPass(p) ==
  LET kind == IF p = "textInputs" THEN "input" ELSE "textarea"
  IN { i \in 1..Len(controls) : controls[i].kind = kind }

\* The control the loop of the pass is at: the (cursor + 1)-th of its kind.
controlAtCursor(p) ==
  CHOOSE i \in controlsOfPass(p) :
    Cardinality({ j \in controlsOfPass(p) : j < i }) = cursor

(***************************************************************************)
(* One fillForm call on a page of text-like controls                       *)
(***************************************************************************)

MaxControls == 2

\* Text-like controls as application forms carry them.  label is the text of
\* the label element for the control's id (null: no such element); required
\* is the value of the required attribute (null: no attribute; "": the bare
\* attribute of <input required>).
ControlCatalogue ==
  << [ kind |-> "input", name |-> "first_name", id |-> "", label |-> null,
       placeholder |-> "", ariaLabel |-> "", required |-> null, value |-> "" ],
     [ kind |-> "input", name |-> "first_name", id |-> "fname", label |-> "First Name",
       placeholder |-> "", ariaLabel |-> "", required |-> "required", value |-> "Jane" ],
     [ kind |-> "input", name |-> "salary", id |-> "", label |-> null,
       placeholder |-> "", ariaLabel |-> "", required |-> "required", value |-> "" ],
     [ kind |-> "input", name |-> "salary", id |-> "", label |-> null,
       placeholder |-> "Expected pay", ariaLabel |-> "", required |-> "true", value |-> "Jane" ],
     [ kind |-> "input", name |-> "linkedin", id |-> "", label |-> null,
       placeholder |-> "", ariaLabel |-> "", required |-> "", value |-> "" ],
     [ kind |-> "input", name |-> "", id |-> "q7", label |-> "Expected start date",
       placeholder |-> "", ariaLabel |-> "", required |-> null, value |-> "  " ],
     [ kind |-> "textarea", name |-> "", id |-> "q1", label |-> "Why do you want to work here?",
       placeholder |-> "", ariaLabel |-> "", required |-> null, value |-> "" ],
     [ kind |-> "textarea", name |-> "why_join", id |-> "", label |-> null,
       placeholder |-> "", ariaLabel |-> "Why join us", required |-> "required", value |-> "" ],
     [ kind |-> "textarea", name |-> "cover_letter", id |-> "", label |-> null,
       placeholder |-> "", ariaLabel |-> "", required |-> "required", value |-> "" ],
     [ kind |-> "input", name |-> "years_of_experience", id |-> "", label |-> null,
       placeholder |-> "", ariaLabel |-> "", required |-> "required", value |-> "" ] >>

\* The pages: up to MaxControls controls of the catalogue, in its order.
Forms ==
  { form \in UNION { [1..n -> 1..Len(ControlCatalogue)] : n \in 0..MaxControls } :
      \A i \in 1..(Len(form) - 1) : form[i] < form[i + 1] }

\* The lines the human types at a missing-field prompt.
MissingFieldAnswers == { "", "Bob", " Bob " }

\* new FormFiller(page, personalDetails, resumePath), and fillForm is entered.
InitFiller ==
  /\ ResolverIdle
  /\ SuitabilityIdle
  /\ FlowIdle
  /\ fillerVariant \in { "basic", "current", "enhanced" }
  /\ \E p \in 1..Len(Profiles) : personalDetails = Profiles[p]
  /\ flatDetails = constructFlatDetails(fillerVariant, personalDetails)
  /\ \E form \in Forms :
       controls = [ i \in 1..Len(form) |-> ControlCatalogue[form[i]] ]
  /\ visitValues = [ i \in 1..Len(controls) |-> null ]
  /\ filledFields = {}
  /\ fillPc = firstPass(fillerVariant)
  /\ cursor = 0
  /\ asked = << >>
  /\ failed = {}
  /\ fileInputs = << >>
  /\ selects = << >>
  /\ surveyPage = noSurveyPage
  /\ surveyState = noSurveyState

\* The effect of one fillInputField / fillTextareaField call on control i.
applyOutcome(i, outcome) ==
  /\ visitValues' = [ visitValues EXCEPT ![i] = controls[i].value ]
  /\ controls' = [ controls EXCEPT ![i].value = outcome.value ]
  /\ filledFields' = IF outcome.filledKey = null THEN filledFields
                     ELSE filledFields \cup { outcome.filledKey }
  /\ asked' = IF outcome.asked THEN Append(asked, << i, outcome.userValue >>) ELSE asked
  /\ failed' = IF outcome.threw THEN failed \cup { i } ELSE failed
  /\ cursor' = cursor + 1

\* fillInputField(element): the next control of fillTextInputs, in every
\* variant, and of fillTextareas in the basic and the enhanced one.
FillInputField ==
  /\ \/ fillPc = "textInputs"
     \/ fillPc = "textareas" /\ fillerVariant # "current"
  /\ cursor < Cardinality(controlsOfPass(fillPc))
  /\ \E answer \in MissingFieldAnswers, fail \in { "none", "read", "fill" } :
       LET i == controlAtCursor(fillPc) IN
       applyOutcome(i, IF fillerVariant = "current"
                       THEN currentFillInputField(controls[i], flatDetails, answer, fail)
                       ELSE basicFillInputField(controls[i], flatDetails, answer, fail))
  /\ UNCHANGED << fileInputs, selects, surveyPage, surveyState, fillerVariant, personalDetails,
                  flatDetails, fillPc, resolverVars, suitabilityVars,
                  flowVars >>

\* fillTextareaField(element): the next control of the current fillTextareas.
FillTextareaField ==
  /\ fillPc = "textareas" /\ fillerVariant = "current"
  /\ cursor < Cardinality(controlsOfPass(fillPc))
  /\ \E fail \in { "none", "read", "fill" } :
       LET i == controlAtCursor(fillPc) IN
       applyOutcome(i, currentFillTextareaField(controls[i], flatDetails, fail))
  /\ UNCHANGED << fileInputs, selects, surveyPage, surveyState, fillerVariant, personalDetails,
                  flatDetails, fillPc, resolverVars, suitabilityVars,
                  flowVars >>

\* fillTextInputs / fillTextareas return: the loop has seen every control.
FinishTextPass ==
  /\ fillPc \in { "textInputs", "textareas" }
  /\ cursor = Cardinality(controlsOfPass(fillPc))
  /\ fillPc' = nextPass(fillerVariant, fillPc)
  /\ cursor' = 0
  /\ UNCHANGED << fileInputs, selects, surveyPage, surveyState, fillerVariant, personalDetails,
                  flatDetails, controls, visitValues, filledFields,
                  asked, failed, resolverVars, suitabilityVars, flowVars >>

\* The first position of seq whose element satisfies Test; 0 when none does.
firstIndex(seq, Test(_)) ==
  IF \E i \in 1..Len(seq) : Test(seq[i])
  THEN CHOOSE i \in 1..Len(seq) : Test(seq[i]) /\ \A j \in 1..(i - 1) : ~Test(seq[j])
  ELSE 0

\* selectOption(select, value, fieldName): the option it selects, 0 when it
\* returns false.  The options carry no value attribute.
selectOption(options, value) ==
  LET valueLower == toLowerCase(value)
  IN firstIndex(options, LAMBDA optionText :
       \/ includes(toLowerCase(optionText), valueLower)
       \/ includes(valueLower, toLowerCase(optionText))
       \/ "" = valueLower)

\* this.resumePath
resumePath == "resume.pdf"

\* The test of uploadResume for a file input meant for the resume; the
\* enhanced filler also takes a control that accepts pdf.
isResumeInput(variant, input) ==
  \/ includes(toLowerCase(input.name), "resume")
  \/ includes(toLowerCase(input.name), "cv")
  \/ includes(toLowerCase(input.id), "resume")
  \/ includes(toLowerCase(input.id), "cv")
  \/ variant = "enhanced" /\ includes(input.accept, "pdf")

\* The file input uploadResume calls setInputFiles on: the first one that
\* passes the test, else fileInputs[0] if there is any file input; 0: none.
uploadTarget(variant, inputs) ==
  LET matching == firstIndex(inputs, LAMBDA input : isResumeInput(variant, input))
  IN IF matching # 0 THEN matching
     ELSE IF Len(inputs) > 0 THEN 1
     ELSE 0

\* [name, id, label].join(' ') of fillSelects
selectIdentifier(select) ==
  select.name \o " " \o select.id \o " " \o (IF select.label = null THEN "" ELSE select.label)

\* What fillSelects does with one select: the option the select shows after
\* it (the one it showed before when nothing is selected or an operation
\* threw) and the key added to filledFields, null when none is.
fillSelect(variant, select, flat, throws) ==
  LET identifier == selectIdentifier(select)
      key == matchField(identifier)
      untouched == [ selected |-> select.selected, filledKey |-> null ]
      chosen(value) == selectOption(select.options, value)
  IN IF throws THEN untouched
     ELSE IF /\ variant = "current"
             /\ \/ includes(toLowerCase(identifier), "how did you hear")
                \/ includes(toLowerCase(identifier), "how did you find")
     THEN [ selected |-> IF chosen("Job Board") # 0 THEN chosen("Job Board")
                         ELSE select.selected,
            filledKey |-> null ]
     ELSE IF key # null /\ truthy(flatValue(flat, key))
     THEN LET option == chosen(String(flatValue(flat, key))) IN
          IF option = 0 THEN untouched
          ELSE [ selected |-> option,
                 filledKey |-> IF variant = "current" THEN null ELSE key ]
     ELSE untouched

\* A pass over controls the page does not have: its query finds nothing and
\* fillForm goes on to the next pass.
nothingToFill ==
  /\ fillPc' = nextPass(fillerVariant, fillPc)
  /\ UNCHANGED << fileInputs, selects, surveyPage, surveyState, fillerVariant, personalDetails,
                  flatDetails, controls, visitValues, filledFields,
                  cursor, asked, failed, resolverVars, suitabilityVars, flowVars >>

\* uploadResume(): setInputFiles on the target, which may throw; the catch
\* logs and fillForm goes on.
UploadResume ==
  /\ fillPc = "upload"
  /\ \E throws \in BOOLEAN :
       LET target == uploadTarget(fillerVariant, fileInputs) IN
       fileInputs' = IF throws \/ target = 0 THEN fileInputs
                     ELSE [ fileInputs EXCEPT ![target].files = { resumePath } ]
  /\ fillPc' = nextPass(fillerVariant, fillPc)
  /\ UNCHANGED << selects, surveyPage, surveyState, fillerVariant, personalDetails,
                  flatDetails, controls, visitValues, filledFields,
                  cursor, asked, failed, resolverVars, suitabilityVars, flowVars >>

\* fillSelects(): every select of the page in turn, each in its own try.
FillSelects ==
  /\ fillPc = "selects"
  /\ \E throwing \in SUBSET (1..Len(selects)) :
       LET outcome(i) == fillSelect(fillerVariant, selects[i], flatDetails, i \in throwing) IN
       /\ selects' = [ i \in 1..Len(selects) |->
                         [ selects[i] EXCEPT !.selected = outcome(i).selected ] ]
       /\ filledFields' = filledFields \cup
                           ({ outcome(i).filledKey : i \in 1..Len(selects) } \ { null })
  /\ fillPc' = nextPass(fillerVariant, fillPc)
  /\ UNCHANGED << fileInputs, surveyPage, surveyState, fillerVariant, personalDetails,
                  flatDetails, controls, visitValues,
                  cursor, asked, failed, resolverVars, suitabilityVars, flowVars >>

\* handleCheckboxesAndRadios(): no checkbox, radio or label to click.
HandleCheckboxesAndRadios ==
  /\ fillPc = "checks"
  /\ surveyPage = noSurveyPage
  /\ nothingToFill

\* EnhancedFormFiller.fillDateFields(): no input[type="date"].
FillDateFields ==
  /\ fillPc = "dates"
  /\ nothingToFill

\* EnhancedFormFiller.handleCustomDropdowns(): no combobox.
HandleCustomDropdowns ==
  /\ fillPc = "customDropdowns"
  /\ nothingToFill

\* A page query of fillForm throws: catch (error) { return false }.
FillFormCatch ==
  /\ fillPc \notin { "idle", "done", "failed" }
  /\ fillPc' = "failed"
  /\ UNCHANGED << fileInputs, selects, surveyPage, surveyState, fillerVariant, personalDetails,
                  flatDetails, controls, visitValues, filledFields,
                  cursor, asked, failed, resolverVars, suitabilityVars, flowVars >>

NextFiller ==
  \/ FillInputField
  \/ FillTextareaField
  \/ FinishTextPass
  \/ UploadResume
  \/ FillSelects
  \/ HandleCheckboxesAndRadios
  \/ FillDateFields
  \/ HandleCustomDropdowns
  \/ FillFormCatch

SpecFiller == InitFiller /\ [][NextFiller]_vars

(***************************************************************************)
(* fillForm on pages with file inputs and selects                          *)
(***************************************************************************)

MaxFileInputs == 2
MaxSelects == 2

\* input[type="file"] controls as application forms carry them.
FileInputCatalogue ==
  << [ name |-> "resume", id |-> "", accept |-> "", files |-> {} ],
     [ name |-> "cover_letter_file", id |-> "", accept |-> ".pdf,.docx", files |-> {} ],
     [ name |-> "transcript", id |-> "", accept |-> "", files |-> {} ],
     [ name |-> "", id |-> "CV-upload", accept |-> "", files |-> {} ],
     [ name |-> "portfolio", id |-> "", accept |-> "", files |-> {} ] >>

\* The file inputs of a page: up to MaxFileInputs of the catalogue, in any
\* document order.
FileInputPages ==
  { [ i \in 1..Len(page) |-> FileInputCatalogue[page[i]] ] :
      page \in { q \in UNION { [1..n -> 1..Len(FileInputCatalogue)] : n \in 0..MaxFileInputs } :
                   \A i, j \in 1..Len(q) : i # j => q[i] # q[j] } }

\* select controls; selected is the position of the option shown, 0 while
\* the select is as the page delivered it.
SelectCatalogue ==
  << [ name |-> "country", id |-> "", label |-> null,
       options |-> << "Select a country", "India", "United States" >>, selected |-> 0 ],
     [ name |-> "", id |-> "source", label |-> "How did you hear about us?",
       options |-> << "LinkedIn", "Job Board" >>, selected |-> 0 ],
     [ name |-> "city", id |-> "", label |-> null,
       options |-> << "Mumbai", "Delhi" >>, selected |-> 0 ] >>

\* The selects of a page: up to MaxSelects of the catalogue, in its order.
SelectPages ==
  { [ i \in 1..Len(page) |-> SelectCatalogue[page[i]] ] :
      page \in { q \in UNION { [1..n -> 1..Len(SelectCatalogue)] : n \in 0..MaxSelects } :
                   \A i \in 1..(Len(q) - 1) : q[i] < q[i + 1] } }

\* new FormFiller(page, personalDetails, resumePath) on a page with a first
\* name input, a company question, file inputs and selects; fillForm is
\* entered.
InitPage ==
  /\ ResolverIdle
  /\ SuitabilityIdle
  /\ FlowIdle
  /\ fillerVariant \in { "basic", "current", "enhanced" }
  /\ personalDetails = Profiles[1]
  /\ flatDetails = constructFlatDetails(fillerVariant, personalDetails)
  /\ controls = << ControlCatalogue[1], ControlCatalogue[7] >>
  /\ visitValues = [ i \in 1..Len(controls) |-> null ]
  /\ filledFields = {}
  /\ fillPc = firstPass(fillerVariant)
  /\ cursor = 0
  /\ asked = << >>
  /\ failed = {}
  /\ fileInputs \in FileInputPages
  /\ selects \in SelectPages
  /\ surveyPage = noSurveyPage
  /\ surveyState = noSurveyState

SpecPage == InitPage /\ [][NextFiller]_vars

(***************************************************************************)
(* Claims about the form filler                                            *)
(***************************************************************************)

(* C4: skip-if-filled: every text-like control that held a value other than *)
(* blanks when its pass visited it holds the same value afterwards,         *)
(* whatever the profile, the required attribute and the human's answers.    *)
C4_SkipIfFilled ==
  \A i \in 1..Len(controls) :
    (visitValues[i] # null /\ trim(visitValues[i]) # "")
      => controls[i].value = visitValues[i]

\* The controls for which askForMissingField returned the empty string.
EmptyAnswered == { asked[k][1] : k \in { k \in 1..Len(asked) : asked[k][2] = "" } }

\* How far fillForm has come: the passes behind it and the controls of the
\* present pass behind it; a fillForm that has returned is past every pass.
fillProgress ==
  LET order == passOrder(fillerVariant)
      passesDone == IF fillPc \in { "done", "failed" } THEN Len(order)
                    ELSE (CHOOSE j \in 1..Len(order) : order[j] = fillPc) - 1
  IN passesDone * (Len(controls) + 1) + cursor

\* The step in which the human answers a missing-field request with nothing.
EmptyAnswerStep ==
  /\ Len(asked') = Len(asked) + 1
  /\ asked'[Len(asked')][2] = ""

(* C13: when the human returns an empty answer to the missing-field request *)
(* for a required text control that resolves to no usable profile value,    *)
(* that step changes no control and adds nothing to the filled set, throws  *)
(* nothing and moves on to the next control; the control stays as it was    *)
(* and its key is not in the filled set.  fillForm terminates: each step    *)
(* moves forward in the pass or to a later pass, a pass over controls has   *)
(* a next control to visit or has seen them all and returns, and when       *)
(* fillForm returns true every control of the form has been visited.        *)
C13_EmptyAnswerLeavesUnfilledAndContinues ==
  /\ [][EmptyAnswerStep =>
          /\ controls' = controls
          /\ filledFields' = filledFields
          /\ failed' = failed
          /\ cursor' = cursor + 1
          /\ fillPc' = fillPc]_vars
  /\ [](\A i \in EmptyAnswered :
          /\ controls[i].value = visitValues[i]
          /\ i \notin failed
          /\ matchField(fieldIdentifierOf(controls[i])) \notin filledFields)
  /\ [](fillPc = "done" => \A i \in 1..Len(controls) : visitValues[i] # null)
  /\ [][fillProgress' > fillProgress]_fillerVars
  /\ [](fillPc \in { "textInputs", "textareas" }
          => cursor <= Cardinality(controlsOfPass(fillPc)))

\* The first of two controls got an empty answer, the second was visited
\* after it and filled, and fillForm returned true.
C13_Witness ==
  /\ fillPc = "done"
  /\ Len(controls) = 2
  /\ EmptyAnswered = { 1 }
  /\ controls[1].value = ""
  /\ visitValues[2] # null
  /\ controls[2].value # visitValues[2]

\* The free-text boxes of the form whose signal text is a company question.
CompanyQuestionBoxes ==
  { i \in 1..Len(controls) :
      /\ controls[i].kind = "textarea"
      /\ \E phrase \in companyQuestionPhrases :
           includes(toLowerCase(fieldIdentifierOf(controls[i])), phrase) }

\* A narrative answer is available to the current FormFiller.
NarrativeAvailable ==
  /\ fillerVariant = "current"
  /\ flatValue(flatDetails, "whyCompany").t = "string"
  /\ flatValue(flatDetails, "whyCompany").s # ""

(* C14: when a narrative answer is available, every free-text box that      *)
(* matches the company-question heuristic, was empty when fillTextareaField *)
(* visited it and could be written, holds the narrative afterwards: two     *)
(* such boxes of one form end with the same text, and the filled set has    *)
(* the key whyCompany, once.                                                *)
C14_EveryCompanyQuestionGetsNarrative ==
  NarrativeAvailable =>
    \A i \in CompanyQuestionBoxes :
      (visitValues[i] # null /\ trim(visitValues[i]) = "" /\ i \notin failed)
        => /\ controls[i].value = flatValue(flatDetails, "whyCompany").s
           /\ "whyCompany" \in filledFields
           /\ Cardinality({ k \in filledFields : k = "whyCompany" }) = 1

\* Two company questions in one form, both answered with the narrative.
C14_Witness ==
  /\ NarrativeAvailable
  /\ fillPc = "done"
  /\ Cardinality(CompanyQuestionBoxes) = 2
  /\ \A i \in CompanyQuestionBoxes :
       /\ visitValues[i] = ""
       /\ controls[i].value = flatValue(flatDetails, "whyCompany").s
  /\ filledFields = { "whyCompany" }

\* Control i was visited empty, its read and fill did not throw, and its
\* signal text resolves to a canonical key for which the flattened profile
\* has a value.
ResolvedWithValue(i) ==
  /\ visitValues[i] = ""
  /\ i \notin failed
  /\ matchField(fieldIdentifierOf(controls[i])) # null
  /\ flatValue(flatDetails, matchField(fieldIdentifierOf(controls[i])))
       \notin { Undefined, Str("") }

(* C24: every empty text-like control whose signal text resolves to a       *)
(* canonical key k for which the flattened profile has a value is set to    *)
(* the string form of that value by the fill pass, k is added to the filled *)
(* set, and the human is not asked about that control.                      *)
C24_ResolvedValueIsApplied ==
  \A i \in 1..Len(controls) :
    ResolvedWithValue(i) =>
      LET k == matchField(fieldIdentifierOf(controls[i])) IN
      /\ controls[i].value = String(flatValue(flatDetails, k))
      /\ k \in filledFields
      /\ \A a \in 1..Len(asked) : asked[a][1] # i

\* Control i is marked required, was visited empty without a throw, and
\* neither the resolver nor a special-case rule has a value for it.
RequiredAndUnresolved(i) ==
  /\ visitValues[i] = ""
  /\ i \notin failed
  /\ controls[i].required # null
  /\ \/ matchField(fieldIdentifierOf(controls[i])) = null
     \/ flatValue(flatDetails, matchField(fieldIdentifierOf(controls[i]))) = Undefined
  /\ \A phrase \in companyQuestionPhrases \cup { "start date", "expected start" } :
       ~includes(toLowerCase(fieldIdentifierOf(controls[i])), phrase)

\* The missing-field requests made for control i.
RequestsFor(i) == { a \in 1..Len(asked) : asked[a][1] = i }

(* C25: every text-like control, single-line or multi-line, that is marked  *)
(* required, is empty and was filled neither by resolution nor by a         *)
(* special-case rule triggers exactly one missing-field request during      *)
(* fillForm; a non-empty answer is written into the control, an empty       *)
(* answer leaves it unfilled.                                               *)
C25_RequiredUnresolvedAsksOnce ==
  \A i \in 1..Len(controls) :
    RequiredAndUnresolved(i) =>
      /\ Cardinality(RequestsFor(i)) = 1
      /\ \A a \in RequestsFor(i) : controls[i].value = asked[a][2]

(***************************************************************************)
(* Checkboxes, radio buttons and dropdowns: handleCheckboxesAndRadios      *)
(***************************************************************************)

\* The first of the candidate answers, in order, for which Try gives a
\* position: let x = await f(a1); if (!x) x = await f(a2); ...   0 when none.
firstSuccess(answers, Try(_)) ==
  LET k == firstIndex(answers, LAMBDA a : Try(a) # 0)
  IN IF k = 0 THEN 0 ELSE Try(answers[k])

\* page.textContent('body') of a page with a question and its options.
RECURSIVE joinWithSpace(_)
joinWithSpace(texts) ==
  IF Len(texts) = 0 THEN ""
  ELSE IF Len(texts) = 1 THEN texts[1]
  ELSE texts[1] \o " " \o joinWithSpace(Tail(texts))

surveyBodyText(page) == joinWithSpace(<< page.question >> \o page.labels \o page.options)

\* selectRadioByText(questionKeywords, answerText): the radio it checks, 0
\* when it returns false or undefined.  Each radio has a label for its id.
selectRadioByText(page, questionKeywords, answerText) ==
  LET lowerText == toLowerCase(surveyBodyText(page))
      answerLower == toLowerCase(answerText)
      radios == IF page.render = "radio" THEN page.options ELSE << >>
  IN IF ~\E keyword \in questionKeywords : includes(lowerText, toLowerCase(keyword))
     THEN 0
     ELSE firstIndex(radios, LAMBDA label :
            \/ includes(toLowerCase(label), answerLower)
            \/ includes(answerLower, toLowerCase(label)))

\* checkBoxByText(targetText): the checkbox it checks, 0 when it returns
\* false.  A label of a radio or of a dropdown has no checkbox.
checkBoxByText(page, targetText) ==
  LET boxes == IF page.render = "checkbox" THEN page.options ELSE << >>
  IN firstIndex(boxes, LAMBDA label :
       trim(label) = targetText \/ includes(trim(label), targetText))

ethnicityCheckboxAnswers ==
  << "Asian or Asian American", "Asian (Not Hispanic or Latino)", "Asian" >>

ethnicityRadioAnswers ==
  << "Asian (Not Hispanic or Latino)", "Asian or Asian American", "Asian", "Indian",
     "South Asian" >>

ethnicitySelectAnswers ==
  << "Asian (Not Hispanic or Latino)", "Asian or Asian American", "Asian", "Indian",
     "South Asian" >>

\* handleEthnicitySelection(): the options selected when it returns, given
\* the ones selected before.  A radio group and a dropdown hold one selection.
handleEthnicitySelection(page, selected) ==
  LET lowerText == toLowerCase(surveyBodyText(page))
  IN IF ~(includes(lowerText, "ethnicity") \/ includes(lowerText, "race")) THEN selected
     ELSE IF includes(lowerText, "select all that apply")
     THEN LET checked == firstSuccess(ethnicityCheckboxAnswers,
                                      LAMBDA a : checkBoxByText(page, a))
          IN IF checked = 0 THEN selected ELSE selected \cup { checked }
     ELSE LET radio == firstSuccess(ethnicityRadioAnswers,
                         LAMBDA a : selectRadioByText(page, { "ethnicity", "race" }, a))
              afterRadios == IF radio = 0 THEN selected ELSE { radio }
              isEthnicitySelect ==
                /\ page.render = "select"
                /\ \/ includes(toLowerCase(page.question), "ethnicity")
                   \/ includes(toLowerCase(page.question), "race")
              option == IF isEthnicitySelect
                        THEN firstSuccess(ethnicitySelectAnswers,
                                          LAMBDA a : selectOption(page.options, a))
                        ELSE 0
          IN IF option = 0 THEN afterRadios ELSE { option }

\* checkBoxByLabel(keywords): the labels it got through and the checkboxes
\* it checked, when the operation on label threwAt throws (0: none does).
\* The loop is inside one try block: the catch ends the call.
checkBoxByLabel(labels, keywords, threwAt) ==
  LET reached == IF threwAt = 0 THEN 1..Len(labels) ELSE 1..(threwAt - 1)
  IN [ visited |-> reached,
       checked |-> { i \in reached :
                       \E keyword \in keywords : includes(toLowerCase(labels[i]), keyword) } ]

consentKeywords == { "allow", "retain", "candidate data", "consent" }

(***************************************************************************)
(* handleCheckboxesAndRadios on pages with choice widgets                  *)
(***************************************************************************)

MaxOptions == 3

\* The texts of the options of an ethnicity question; "" is the placeholder
\* entry of a dropdown.
OptionCatalogue ==
  << "", "White", "Hispanic or Latino", "Indian", "Asian", "South Asian",
     "Prefer not to say" >>

\* The questions, each as it is rendered.
EthnicityQuestions ==
  { [ render |-> "radio", question |-> "What is your ethnicity?" ],
    [ render |-> "select", question |-> "What is your ethnicity?" ],
    [ render |-> "checkbox", question |-> "Race (select all that apply)" ] }

\* Labels that wrap a checkbox, in document order before the question.
LabelLists ==
  { << >>,
    << "I consent to the processing of my data", "Subscribe to the newsletter" >>,
    << "Subscribe to the newsletter", "You may retain my details",
       "I consent to the processing of my data" >> }

\* The options of a question: up to MaxOptions entries of the catalogue, in
\* its order; only a dropdown has the placeholder entry.
OptionLists(render) ==
  { [ i \in 1..Len(picked) |-> OptionCatalogue[picked[i]] ] :
      picked \in { o \in UNION { [1..n -> 1..Len(OptionCatalogue)] : n \in 1..MaxOptions } :
                     /\ \A i \in 1..(Len(o) - 1) : o[i] < o[i + 1]
                     /\ (render # "select" => o[1] # 1) } }

SurveyPages ==
  UNION { { [ question |-> q.question, render |-> q.render, options |-> options,
              labels |-> labels ] :
              options \in OptionLists(q.render), labels \in LabelLists } :
          q \in EthnicityQuestions }

\* fillForm of the current FormFiller has reached handleCheckboxesAndRadios
\* on a page whose widgets are a set of labelled checkboxes and one question.
InitSurvey ==
  /\ ResolverIdle
  /\ SuitabilityIdle
  /\ FlowIdle
  /\ fillerVariant = "current"
  /\ personalDetails = Profiles[1]
  /\ flatDetails = constructFlatDetails("current", personalDetails)
  /\ controls = << >>
  /\ visitValues = << >>
  /\ filledFields = {}
  /\ fillPc = "checks"
  /\ cursor = 0
  /\ asked = << >>
  /\ failed = {}
  /\ fileInputs = << >>
  /\ selects = << >>
  /\ surveyPage \in SurveyPages
  /\ surveyState = [ noSurveyState EXCEPT !.pc = "consent" ]

surveyUnchanged ==
  UNCHANGED << fillerVariant, personalDetails, flatDetails, controls, visitValues,
               filledFields, cursor,
               asked, failed, fileInputs, selects, surveyPage, resolverVars,
               suitabilityVars, flowVars >>

\* await this.checkBoxByLabel(['allow', 'retain', 'candidate data', 'consent'])
\* The calls before it find no question and no label of theirs on these pages.
CheckBoxByLabel ==
  /\ fillPc = "checks" /\ surveyState.pc = "consent"
  /\ \E threwAt \in 0..Len(surveyPage.labels) :
       LET call == checkBoxByLabel(surveyPage.labels, consentKeywords, threwAt) IN
       surveyState' = [ surveyState EXCEPT !.pc = "ethnicity",
                                           !.visited = call.visited,
                                           !.checked = call.checked,
                                           !.threwAt = threwAt ]
  /\ UNCHANGED fillPc
  /\ surveyUnchanged

\* await this.handleEthnicitySelection()
HandleEthnicitySelection ==
  /\ fillPc = "checks" /\ surveyState.pc = "ethnicity"
  /\ surveyState' =
       [ surveyState EXCEPT !.pc = "returning",
                            !.selected = handleEthnicitySelection(surveyPage, @) ]
  /\ UNCHANGED fillPc
  /\ surveyUnchanged

\* handleCheckboxesAndRadios returns: the authorization and sponsorship calls
\* find no label of theirs; fillForm returns true.
ReturnFromChecks ==
  /\ fillPc = "checks" /\ surveyState.pc = "returning"
  /\ surveyState' = [ surveyState EXCEPT !.pc = "done" ]
  /\ fillPc' = nextPass(fillerVariant, fillPc)
  /\ surveyUnchanged

NextSurvey == CheckBoxByLabel \/ HandleEthnicitySelection \/ ReturnFromChecks

SpecSurvey == InitSurvey /\ [][NextSurvey]_vars

(***************************************************************************)
(* Claims about the choice widgets                                         *)
(***************************************************************************)

\* The question offers "Indian" and no option that names Asian.
OffersIndianNotAsian(page) ==
  /\ \E i \in 1..Len(page.options) : page.options[i] = "Indian"
  /\ \A i \in 1..Len(page.options) : ~includes(toLowerCase(page.options[i]), "asian")

(* C15: ethnicity fallback chain: on a page whose ethnicity question offers *)
(* "Indian" and no Asian option, handleEthnicitySelection ends with the     *)
(* option "Indian" selected and no other, whether the question is a group   *)
(* of radio buttons, a dropdown or select-all-that-apply checkboxes.        *)
C15_IndianFallbackSelected ==
  (surveyState.pc \in { "returning", "done" } /\ OffersIndianNotAsian(surveyPage))
    => surveyState.selected
         = { i \in 1..Len(surveyPage.options) : surveyPage.options[i] = "Indian" }

(* C18: failure isolation: when the operation on one control throws during  *)
(* fillForm, only that control is skipped: once checkBoxByLabel has         *)
(* returned, every labelled checkbox other than the one that threw has been *)
(* visited, and checked if its label has one of the keywords; the later     *)
(* steps of the pass still run and fillForm completes with the failure      *)
(* still confined to that one control.                                      *)
C18_FailureIsolation ==
  surveyState.pc \in { "ethnicity", "returning", "done" } =>
    \A i \in 1..Len(surveyPage.labels) :
      i # surveyState.threwAt =>
        /\ i \in surveyState.visited
        /\ (\E keyword \in consentKeywords :
              includes(toLowerCase(surveyPage.labels[i]), keyword))
             => i \in surveyState.checked

(***************************************************************************)
(* Human answers to yes/no prompts: utils/user-input.js                    *)
(***************************************************************************)

\* answer.toLowerCase() === 'yes' || answer.toLowerCase() === 'y'
isYes(answer) == toLowerCase(answer) = "yes" \/ toLowerCase(answer) = "y"

\* A confirmation that takes every answer other than a refusal as consent.
confirmUnlessNo(answer) ==
  toLowerCase(prompt(answer)) # "no" /\ toLowerCase(prompt(answer)) # "n"

\* UserInput.confirmSubmission(jobTitle, company), on the line typed.
confirmSubmission(answer) == isYes(prompt(answer))

(***************************************************************************)
(* ApplicationSubmitter.shouldSkipJob                                      *)
(***************************************************************************)

internationalLocations ==
  { "usa", "united states", "us", "america", "san francisco", "new york", "california",
    "uk", "united kingdom", "london", "europe", "canada", "toronto", "vancouver",
    "australia", "singapore", "germany", "france", "netherlands" }

\* shouldSkipJob(jobInfo, page), on the page's text and the line the human
\* types if asked; a page without a body makes it throw, and the catch
\* returns false.
shouldSkipJob(jobInfo, bodyText, answer) ==
  IF bodyText = null THEN FALSE
  ELSE LET lowerText == toLowerCase(bodyText)
           location == toLowerCase(IF jobInfo.location = null THEN "" ELSE jobInfo.location)
           isInternational ==
             \E loc \in internationalLocations :
               \/ includes(location, loc)
               \/ includes(lowerText, "location: " \o loc)
               \/ includes(lowerText, "office: " \o loc)
           isRemote == \/ includes(lowerText, "remote")
                       \/ includes(lowerText, "work from home")
                       \/ includes(lowerText, "anywhere")
           isHybrid == includes(lowerText, "hybrid")
           isOnsite == \/ includes(lowerText, "on-site")
                       \/ includes(lowerText, "onsite")
                       \/ includes(lowerText, "in-office")
       IN IF ~isInternational THEN FALSE
          ELSE IF isHybrid \/ isOnsite THEN TRUE
          ELSE IF ~isRemote THEN ~isYes(prompt(answer))
          ELSE FALSE

(***************************************************************************)
(* The run: index.js and components/application-submitter.js               *)
(***************************************************************************)

MaxQueries == 2
MaxLinks == 2

\* Values of MAX_APPLICATIONS_PER_RUN in .env: numbers up to the links a
\* search gives, a number followed by text, a negative number, and values
\* that are no number.
MaxApplicationsSettings ==
  { digitsOf(n) : n \in 0..MaxLinks } \cup { "1e3", "-1", "", "ten" }

\* The lines the human types at a yes/no prompt.
YesNoAnswers == { "", "no", " YES ", "y", "yes please" }

\* The texts of the job pages the search leads to; null: a page without body.
JobPageTexts ==
  { "Acme Corp is hiring\nInternship\nRemote",
    "Employment type: Full time\nLocation type: On-site\nLondon office\nInternship",
    "Acme Corp is hiring",
    "Internship\nLocation: London\nAre you authorized to work in the United Kingdom?",
    null }

\* The forms behind the apply button, as positions in ControlCatalogue.
JobForms == { << 3 >>, << 1, 7 >> }

\* The profile the run loaded from personal-details.json.
runProfile == Profiles[1]

\* main() has constructed JobSearchAutomation and initialize() has loaded the
\* configuration; it is about to ask for the auto-submit preference.
InitFlow ==
  /\ ResolverIdle
  /\ SuitabilityIdle
  /\ FillerIdle
  /\ submitterVariant \in { "first", "analyzing" }
  /\ autoSubmit \in BOOLEAN
  /\ startupAnswer = null
  /\ \E setting \in MaxApplicationsSettings : maxApplications = parseInt(setting)
  /\ flowPc = "initialize"
  /\ queryIndex = 0
  /\ jobLinkCount = 0
  /\ jobIndex = 0
  /\ totalApplications = 0
  /\ job = noJob

\* The FormFiller and the job page are gone once applyToJob is over.
dropJobPage ==
  /\ pageText' = null
  /\ analysis' = NotAnalyzed
  /\ fillerVariant' = "current"
  /\ personalDetails' = noProfile
  /\ flatDetails' = << >>
  /\ controls' = << >>
  /\ visitValues' = << >>
  /\ filledFields' = {}
  /\ fillPc' = "idle"
  /\ cursor' = 0
  /\ asked' = << >>
  /\ failed' = {}
  /\ UNCHANGED << fileInputs, selects, surveyPage, surveyState >>
  /\ UNCHANGED << lastFragment, fragmentCount >>

\* initialize(): the human answers the auto-submit prompt.
Initialize ==
  /\ flowPc = "initialize"
  /\ \E answer \in YesNoAnswers :
       /\ startupAnswer' = answer
       /\ autoSubmit' = isYes(prompt(answer))
  /\ flowPc' = "search"
  /\ UNCHANGED << submitterVariant, maxApplications, queryIndex, jobLinkCount,
                  jobIndex, totalApplications, job,
                  resolverVars, suitabilityVars, fillerVars >>

\* The for loop over the queries goes to its next round, or ends.
toQuery(i) ==
  /\ queryIndex' = i
  /\ flowPc' = IF i < MaxQueries THEN "search" ELSE "completed"

\* run(): searchAndExtract(query, maxApplications) returns the job links.
SearchAndExtract ==
  /\ flowPc = "search"
  /\ \E uniqueLinks \in 0..MaxLinks :
       LET n == sliceLength(uniqueLinks, maxApplications) IN
       /\ jobLinkCount' = n
       /\ jobIndex' = 0
       /\ IF n = 0
          THEN IF queryIndex < MaxQueries - 1
               THEN flowPc' = "continueAfterEmpty" /\ UNCHANGED queryIndex
               ELSE toQuery(queryIndex + 1)
          ELSE flowPc' = "jobs" /\ UNCHANGED queryIndex
  /\ UNCHANGED << submitterVariant, autoSubmit, startupAnswer, maxApplications,
                  totalApplications, job,
                  resolverVars, suitabilityVars, fillerVars >>

\* run(): the human answers "Continue to next search query?".
ContinueToNextQuery ==
  /\ flowPc \in { "continueAfterEmpty", "continue" }
  /\ \E answer \in YesNoAnswers :
       IF isYes(prompt(answer))
       THEN toQuery(queryIndex + 1)
       ELSE flowPc' = "completed" /\ UNCHANGED queryIndex
  /\ UNCHANGED << submitterVariant, autoSubmit, startupAnswer, maxApplications,
                  jobLinkCount, jobIndex, totalApplications, job,
                  resolverVars, suitabilityVars, fillerVars >>

\* run(): the loop over the job links ends, by its condition or by the limit.
LeaveJobLoop ==
  /\ flowPc = "jobs"
  /\ jobIndex >= jobLinkCount \/ atLeast(totalApplications, maxApplications)
  /\ IF queryIndex < MaxQueries - 1
     THEN flowPc' = "continue" /\ UNCHANGED queryIndex
     ELSE toQuery(queryIndex + 1)
  /\ UNCHANGED << submitterVariant, autoSubmit, startupAnswer, maxApplications,
                  jobLinkCount, jobIndex, totalApplications, job,
                  resolverVars, suitabilityVars, fillerVars >>

\* What run() and the rest of the flow leave alone during applyToJob.
runUnchanged ==
  UNCHANGED << submitterVariant, autoSubmit, startupAnswer, maxApplications,
               queryIndex, jobLinkCount, jobIndex, totalApplications, resolverVars >>

\* A job loop that tests the limit with > in place of >=.
OpenInNewTabPastLimit ==
  /\ flowPc = "jobs"
  /\ jobIndex < jobLinkCount
  /\ maxApplications.nan \/ totalApplications <= maxApplications.n
  /\ job' = noJob
  /\ flowPc' = IF submitterVariant = "analyzing" THEN "analyze" ELSE "extractJobInfo"
  /\ runUnchanged
  /\ UNCHANGED << suitabilityVars, fillerVars >>

\* applyToJob(jobLinks[j]) is called and openInNewTab(url) returns the tab.
OpenInNewTab ==
  /\ flowPc = "jobs"
  /\ jobIndex < jobLinkCount
  /\ ~atLeast(totalApplications, maxApplications)
  /\ job' = noJob
  /\ flowPc' = IF submitterVariant = "analyzing" THEN "analyze" ELSE "extractJobInfo"
  /\ runUnchanged
  /\ UNCHANGED << suitabilityVars, fillerVars >>

\* openInNewTab(url) throws: jobPage stays null, catch returns false and the
\* finally block has no tab to close.
OpenInNewTabThrows ==
  /\ flowPc = "jobs"
  /\ jobIndex < jobLinkCount
  /\ ~atLeast(totalApplications, maxApplications)
  /\ job' = [ noJob EXCEPT !.result = "false" ]
  /\ flowPc' = "returned"
  /\ runUnchanged
  /\ UNCHANGED << suitabilityVars, fillerVars >>

\* A submitter that goes on whatever the verdict.
verdictIgnored(jobAnalysis) == FALSE

\* if (!analysis.suitable) { ... return false; }
verdictStops(jobAnalysis) == ~jobAnalysis.suitable

\* const analysis = await this.jobAnalyzer.analyzeJobOverview(jobPage);
\* if (!analysis.suitable) return false;
\* job.rejected records that the verdict was: not accepted.
AnalyzeJob ==
  /\ flowPc = "analyze"
  /\ \E text \in JobPageTexts :
       /\ pageText' = text
       /\ analysis' = analyzeJobOverview(text)
  /\ IF verdictStops(analysis')
     THEN /\ flowPc' = "finally"
          /\ job' = [ job EXCEPT !.rejected = ~analysis'.suitable, !.result = "false" ]
     ELSE /\ flowPc' = "shouldSkipJob"
          /\ job' = [ job EXCEPT !.rejected = ~analysis'.suitable ]
  /\ runUnchanged
  /\ UNCHANGED << lastFragment, fragmentCount, fillerVars >>

\* if (await this.shouldSkipJob(jobInfo, jobPage)) return false;
ShouldSkipJob ==
  /\ flowPc = "shouldSkipJob"
  /\ \E answer \in YesNoAnswers :
       IF shouldSkipJob(analysis.jobInfo, pageText, answer)
       THEN flowPc' = "finally" /\ job' = [ job EXCEPT !.result = "false" ]
       ELSE flowPc' = "findApplyButton" /\ UNCHANGED job
  /\ runUnchanged
  /\ UNCHANGED << suitabilityVars, fillerVars >>

\* First variant: const jobInfo = await this.extractJobInfo(jobPage);
ExtractJobInfo ==
  /\ flowPc = "extractJobInfo"
  /\ flowPc' = "findApplyButton"
  /\ runUnchanged
  /\ UNCHANGED << job, suitabilityVars, fillerVars >>

\* findApplyButton(jobPage); with a button: applyButton.click(); without one:
\* return true.
FindApplyButton ==
  /\ flowPc = "findApplyButton"
  /\ \E found \in BOOLEAN :
       IF found
       THEN /\ job' = [ job EXCEPT !.clicked = TRUE, !.afterCaptcha = "fillApplicationForm" ]
            /\ flowPc' = "detectCaptcha"
       ELSE /\ job' = [ job EXCEPT !.result = "true" ]
            /\ flowPc' = "finally"
  /\ runUnchanged
  /\ UNCHANGED << suitabilityVars, fillerVars >>

\* if (await this.browserManager.detectCaptcha()) await userInput.waitForCaptcha();
\* after the click, and again in fillApplicationForm once fillForm has returned.
\* detectCaptcha() queries this.page of the BrowserManager, the tab launch()
\* opened for the search; the job page is the tab openInNewTab returned.
\* Either tab may or may not show a challenge.
detectCaptcha(onSearchTab, onJobPage) == onSearchTab

DetectCaptcha ==
  /\ \/ flowPc = "detectCaptcha"
     \/ flowPc = "fillForm" /\ fillPc \in { "done", "failed" }
  /\ LET target == IF flowPc = "fillForm" THEN "submission" ELSE job.afterCaptcha IN
     \E onSearchTab \in BOOLEAN, onJobPage \in BOOLEAN :
       /\ flowPc' = IF detectCaptcha(onSearchTab, onJobPage) THEN "waitForCaptcha" ELSE target
       /\ job' = [ job EXCEPT !.afterCaptcha = target, !.challengeOnJobPage = onJobPage,
                              !.captchaWaited = FALSE ]
  /\ runUnchanged
  /\ UNCHANGED << suitabilityVars, fillerVars >>

\* UserInput.waitForCaptcha() is waiting in prompt(): the human presses Enter,
\* the promise resolves and the caller goes on.
WaitForCaptcha ==
  /\ flowPc = "waitForCaptcha"
  /\ flowPc' = job.afterCaptcha
  /\ job' = [ job EXCEPT !.captchaWaited = TRUE ]
  /\ runUnchanged
  /\ UNCHANGED << suitabilityVars, fillerVars >>

\* { ...this.personalDetails, dynamicAnswers: { whyCompany, companyName } }
enhancedDetails(profile, jobAnalysis) ==
  [ k \in DOMAIN profile \cup { "dynamicAnswers" } |->
      IF k = "dynamicAnswers"
      THEN [ whyCompany |-> IF jobAnalysis.whyWorkHere = null THEN Undefined
                            ELSE Str(jobAnalysis.whyWorkHere),
             companyName |-> IF jobAnalysis.jobInfo.company = null THEN Undefined
                             ELSE Str(jobAnalysis.jobInfo.company) ]
      ELSE profile[k] ]

\* fillApplicationForm: new FormFiller(page, details, resumePath) and
\* formFiller.fillForm() is entered; the passes are the FormFiller's actions.
FillApplicationForm ==
  /\ flowPc = "fillApplicationForm"
  /\ fillerVariant' = IF submitterVariant = "analyzing" THEN "current" ELSE "basic"
  /\ personalDetails' = IF submitterVariant = "analyzing"
                        THEN enhancedDetails(runProfile, analysis)
                        ELSE runProfile
  /\ flatDetails' = constructFlatDetails(fillerVariant', personalDetails')
  /\ \E form \in JobForms :
       controls' = [ i \in 1..Len(form) |-> ControlCatalogue[form[i]] ]
  /\ visitValues' = [ i \in 1..Len(controls') |-> null ]
  /\ filledFields' = {}
  /\ fillPc' = firstPass(fillerVariant')
  /\ cursor' = 0
  /\ asked' = << >>
  /\ failed' = {}
  /\ UNCHANGED << fileInputs, selects, surveyPage, surveyState >>
  /\ job' = [ job EXCEPT !.fillInvoked = TRUE ]
  /\ flowPc' = "fillForm"
  /\ runUnchanged
  /\ UNCHANGED suitabilityVars

\* if (this.config.autoSubmit) await this.submitApplication(jobPage);
\* the current submitter only.
AutoSubmit ==
  /\ flowPc = "submission"
  /\ submitterVariant = "analyzing" /\ autoSubmit
  /\ job' = [ job EXCEPT !.submitInvoked = TRUE ]
  /\ flowPc' = "submitApplication"
  /\ runUnchanged
  /\ UNCHANGED << suitabilityVars, fillerVars >>

\* else: userInput.confirmSubmission(title, company) is called and waits in
\* prompt() for a line.
AskConfirmation ==
  /\ flowPc = "submission"
  /\ submitterVariant = "first" \/ ~autoSubmit
  /\ job' = [ job EXCEPT !.confirmAsked = TRUE ]
  /\ flowPc' = "confirmSubmission"
  /\ runUnchanged
  /\ UNCHANGED << suitabilityVars, fillerVars >>

\* The human answers: const shouldSubmit = await userInput.confirmSubmission(..);
\* if (shouldSubmit) await this.submitApplication(jobPage);
ConfirmSubmission ==
  /\ flowPc = "confirmSubmission"
  /\ \E answer \in YesNoAnswers :
       LET shouldSubmit == confirmSubmission(answer) IN
       /\ job' = [ job EXCEPT !.confirmAsked = TRUE, !.confirmAnswer = answer,
                              !.confirmed = shouldSubmit,
                              !.submitInvoked = shouldSubmit,
                              !.result = IF shouldSubmit THEN @ ELSE "true" ]
       /\ flowPc' = IF shouldSubmit THEN "submitApplication" ELSE "finally"
  /\ runUnchanged
  /\ UNCHANGED << suitabilityVars, fillerVars >>

\* submitApplication(page): the human submits the form and presses Enter;
\* applyToJob then returns true.
SubmitApplication ==
  /\ flowPc = "submitApplication"
  /\ job' = [ job EXCEPT !.submitted = TRUE, !.result = "true" ]
  /\ flowPc' = "finally"
  /\ runUnchanged
  /\ UNCHANGED << suitabilityVars, fillerVars >>

\* A flow in which a prompt that waits for the human gives up after a while
\* and rejects, as a prompt with a timeout would: the catch block returns.
ApplicationErrorOnPromptTimeout ==
  /\ \/ flowPc \in { "analyze", "extractJobInfo", "findApplyButton", "detectCaptcha",
                     "fillApplicationForm", "waitForCaptcha", "confirmSubmission" }
     \/ flowPc = "fillForm" /\ fillPc \in { "done", "failed" }
  /\ \E clicked \in BOOLEAN :
       job' = [ job EXCEPT !.result = "false",
                           !.clicked = @ \/ (flowPc = "findApplyButton" /\ clicked) ]
  /\ flowPc' = "finally"
  /\ runUnchanged
  /\ UNCHANGED << suitabilityVars, fillerVars >>

\* A page operation inside the try block throws (waitForLoadState, click,
\* waitForTimeout, detectCaptcha): catch (error) { return false }.
ApplicationError ==
  /\ \/ flowPc \in { "analyze", "extractJobInfo", "findApplyButton", "detectCaptcha",
                     "fillApplicationForm" }
     \/ flowPc = "fillForm" /\ fillPc \in { "done", "failed" }
  /\ \E clicked \in BOOLEAN :
       job' = [ job EXCEPT !.result = "false",
                           !.clicked = @ \/ (flowPc = "findApplyButton" /\ clicked) ]
  /\ flowPc' = "finally"
  /\ runUnchanged
  /\ UNCHANGED << suitabilityVars, fillerVars >>

\* finally { await jobPage.waitForTimeout(2000); await closeTab(jobPage) }
\* and applyToJob returns what the try or the catch block returned.
CloseTab ==
  /\ flowPc = "finally"
  /\ flowPc' = "returned"
  /\ dropJobPage
  /\ runUnchanged
  /\ UNCHANGED job

\* jobPage.waitForTimeout(2000) of the finally block throws: the exception
\* leaves applyToJob and run(), whose catch logs and rethrows it.
FinallyThrows ==
  /\ flowPc = "finally"
  /\ flowPc' = "crashed"
  /\ dropJobPage
  /\ runUnchanged
  /\ UNCHANGED job

\* run(): if (success) totalApplications++; and j++.
CountApplication ==
  /\ flowPc = "returned"
  /\ totalApplications' = IF job.result = "true" THEN totalApplications + 1
                          ELSE totalApplications
  /\ jobIndex' = jobIndex + 1
  /\ job' = noJob
  /\ flowPc' = "jobs"
  /\ UNCHANGED << submitterVariant, autoSubmit, startupAnswer, maxApplications,
                  queryIndex, jobLinkCount, resolverVars, suitabilityVars, fillerVars >>

\* main(): finally { await automation.cleanup() }
Cleanup ==
  /\ flowPc \in { "completed", "crashed" }
  /\ flowPc' = "exited"
  /\ job' = noJob
  /\ UNCHANGED << submitterVariant, autoSubmit, startupAnswer, maxApplications,
                  queryIndex, jobLinkCount, jobIndex, totalApplications,
                  resolverVars, suitabilityVars, fillerVars >>

NextFlow ==
  \/ Initialize
  \/ SearchAndExtract
  \/ ContinueToNextQuery
  \/ LeaveJobLoop
  \/ OpenInNewTab
  \/ OpenInNewTabThrows
  \/ AnalyzeJob
  \/ ShouldSkipJob
  \/ ExtractJobInfo
  \/ FindApplyButton
  \/ DetectCaptcha
  \/ WaitForCaptcha
  \/ FillApplicationForm
  \/ FillInputField
  \/ FillTextareaField
  \/ FinishTextPass
  \/ UploadResume
  \/ FillSelects
  \/ HandleCheckboxesAndRadios
  \/ FillFormCatch
  \/ AutoSubmit
  \/ AskConfirmation
  \/ ConfirmSubmission
  \/ SubmitApplication
  \/ ApplicationError
  \/ CloseTab
  \/ FinallyThrows
  \/ CountApplication
  \/ Cleanup

SpecFlow == InitFlow /\ [][NextFlow]_vars

(***************************************************************************)
(* Claims about the application flow                                       *)
(***************************************************************************)

\* The lines of YesNoAnswers that are "yes" or "y" once trimmed and lower-cased.
AffirmativeAnswers == { " YES ", "y" }

(* C5: with autoSubmit false, submitApplication is entered for a job only   *)
(* after confirmSubmission returned true for that job, and it returned true *)
(* only on a line that is "yes" or "y" once trimmed and lower-cased; the    *)
(* empty line and every other line leave the form unsubmitted.              *)
C5_SubmitOnlyAfterConfirmation ==
  /\ (~autoSubmit /\ (job.submitInvoked \/ job.submitted))
       => (job.confirmAsked /\ job.confirmed)
  /\ job.confirmed <=> (job.confirmAsked /\ job.confirmAnswer \in AffirmativeAnswers)
  /\ (job.confirmAsked /\ ~job.confirmed) => (~job.submitInvoked /\ ~job.submitted)

\* A job submitted in manual mode after the human typed " YES ".
C5_Witness ==
  /\ ~autoSubmit
  /\ startupAnswer # null
  /\ job.submitted
  /\ job.confirmAnswer = " YES "

(* C6: no auto-submit: whatever the configuration and the answer at         *)
(* start-up, submitApplication is entered for a job only after the human    *)
(* was asked to confirm that job and answered affirmatively.                *)
C6_NoSubmitWithoutConfirmation ==
  (job.submitInvoked \/ job.submitted)
    => (job.confirmAsked /\ job.confirmAnswer \in AffirmativeAnswers)

AnalysisFailed == pageText = null /\ analysis # NotAnalyzed

(* C12: the suitability analysis fails open: when a step of                 *)
(* analyzeJobOverview raises an error the call returns an accepted verdict  *)
(* with empty extracted attributes and no narrative answer, the job is not  *)
(* rejected, and applyToJob goes on to its next step for that job.          *)
C12_AnalysisFailsOpen ==
  /\ [](AnalysisFailed =>
          /\ analysis.suitable = TRUE
          /\ analysis.jobInfo = emptyJobInfo
          /\ analysis.whyWorkHere = null
          /\ ~job.rejected)
  /\ [][(flowPc = "analyze" /\ AnalysisFailed')
          => (flowPc' = "shouldSkipJob" /\ job'.result = "pending")]_vars

\* After a failed analysis the apply button was clicked and fillForm entered
\* with no narrative answer in the profile.
C12_Witness ==
  /\ AnalysisFailed
  /\ job.clicked
  /\ job.fillInvoked
  /\ flowPc = "fillForm"
  /\ flatValue(flatDetails, "whyCompany") = Undefined

\* Where applyToJob is once the form may be filled or the submission decided.
PastChallengeGate ==
  flowPc \in { "fillApplicationForm", "fillForm", "submission", "confirmSubmission",
               "submitApplication" }

(* C19: challenge gate: whenever a challenge is on the page of the job      *)
(* after the apply button was clicked, waitForCaptcha is invoked and the    *)
(* human has responded before any control of the form is filled; and a      *)
(* challenge that is on that page after the filling has been waited for     *)
(* before the confirmation of the submission is requested.                  *)
C19_ChallengeGate ==
  (PastChallengeGate /\ job.challengeOnJobPage) => job.captchaWaited

\* A prompt of the human is open: waitForCaptcha or confirmSubmission waits
\* in prompt() for a line.
EscalationPending == flowPc \in { "waitForCaptcha", "confirmSubmission" }

\* What a later step of the flow would change: the form and its controls,
\* the submission, the result of applyToJob, the loops of run().
laterSteps ==
  << fillerVars, job.fillInvoked, job.submitInvoked, job.submitted, job.result, jobIndex,
     queryIndex, jobLinkCount, totalApplications >>

(* C20: escalation requests block with no timeout: while waitForCaptcha or  *)
(* confirmSubmission waits, no step of the flow happens but the delivery of *)
(* the human's response: no control is filled, nothing is submitted, the    *)
(* tab is not closed and no next job is started; and the step in which the  *)
(* response arrives takes the flow on to what follows the request.          *)
C20_EscalationBlocksUntilAnswered ==
  /\ [][flowPc = "waitForCaptcha"
         => /\ job'.captchaWaited
            /\ flowPc' = job.afterCaptcha
            /\ flowPc' \in { "fillApplicationForm", "submission" }
            /\ laterSteps' = laterSteps]_vars
  /\ [][flowPc = "confirmSubmission"
         => /\ job'.confirmAnswer \in YesNoAnswers
            /\ flowPc' = IF confirmSubmission(job'.confirmAnswer) THEN "submitApplication"
                         ELSE "finally"
            /\ job'.submitInvoked = confirmSubmission(job'.confirmAnswer)
            /\ ~job'.submitted
            /\ << fillerVars, jobIndex, queryIndex, totalApplications >>'
                 = << fillerVars, jobIndex, queryIndex, totalApplications >>]_vars
  /\ [](EscalationPending => flowPc \notin { "finally", "returned", "crashed" })

\* The human answered a challenge before the form and one after it, the form
\* was filled in between, and confirmSubmission now waits for its answer.
C20_Witness ==
  /\ flowPc = "confirmSubmission"
  /\ job.captchaWaited
  /\ job.fillInvoked
  /\ fillPc = "done"
  /\ asked # << >>
  /\ job.confirmAnswer = null
\* run() calls applyToJob in this step: it leaves the head of the job loop
\* for the inside of applyToJob.
ApplyToJobInvoked ==
  /\ flowPc = "jobs"
  /\ flowPc' \in { "analyze", "extractJobInfo", "finally" }

(* C21: MAX_APPLICATIONS_PER_RUN limits the applications of a session: in   *)
(* every run, over all its search queries, the number of applyToJob calls   *)
(* that returned true never exceeds the configured maxApplications (and is  *)
(* zero when the setting is negative or not a number), and applyToJob is    *)
(* never invoked once that number has reached maxApplications.              *)
C21_MaxApplicationsLimit ==
  /\ [](IF maxApplications.nan \/ maxApplications.n < 0
        THEN totalApplications = 0
        ELSE totalApplications <= maxApplications.n)
  /\ [][ApplyToJobInvoked
         => (~maxApplications.nan /\ totalApplications < maxApplications.n)]_vars
  /\ [][totalApplications' # totalApplications
         => /\ flowPc = "returned" /\ job.result = "true"
            /\ totalApplications' = totalApplications + 1]_vars
  /\ [][(flowPc = "returned" /\ job.result = "true" /\ flowPc' # flowPc)
         => totalApplications' = totalApplications + 1]_vars

\* The second query of a run limited to one application gave a job link
\* after the first query's job had returned true, and the loop was left
\* without applying.
C21_Witness ==
  /\ maxApplications = Integer(1)
  /\ totalApplications = 1
  /\ queryIndex > 1
  /\ jobLinkCount = 1
  /\ jobIndex = 0
  /\ flowPc = "completed"
\* The file inputs that hold the resume.
ResumeHolders == { i \in 1..Len(fileInputs) : resumePath \in fileInputs[i].files }

\* The file inputs whose name or id contains a resume / CV keyword.
KeywordInputs ==
  { i \in 1..Len(fileInputs) :
      \E keyword \in { "resume", "cv" } :
        \/ includes(toLowerCase(fileInputs[i].name), keyword)
        \/ includes(toLowerCase(fileInputs[i].id), keyword) }

\* uploadResume has run.
UploadDone ==
  \/ fillPc \in { "done", "failed" } /\ fillerVariant # "current"
  \/ fillPc \notin { "idle", "upload" } /\ fillerVariant = "current"

(* C26: the resume is set on the first file control whose name or id        *)
(* contains a resume / CV keyword; when no file control matches, a default  *)
(* target is used only if exactly one file control exists, so with two or   *)
(* more non-matching file controls no file is set; in every case at most    *)
(* one file control receives the resume per fillForm.                       *)
C26_ResumeTargetSelection ==
  /\ Cardinality(ResumeHolders) <= 1
  /\ \A i \in ResumeHolders :
       IF KeywordInputs # {} THEN i \in KeywordInputs /\ \A j \in KeywordInputs : i <= j
       ELSE Len(fileInputs) = 1
  /\ (UploadDone /\ KeywordInputs = {} /\ Len(fileInputs) >= 2) => ResumeHolders = {}

\* The keys of the profile that were applied to a single-line or multi-line
\* control: the control was visited empty and now holds the string form of
\* the value of the key its signal text resolves to, or the narrative.
KeysAppliedToText ==
  { matchField(fieldIdentifierOf(controls[i])) :
      i \in { j \in 1..Len(controls) :
                /\ ResolvedWithValue(j)
                /\ controls[j].value
                     = String(flatValue(flatDetails, matchField(fieldIdentifierOf(controls[j])))) } }
  \cup { "whyCompany" : i \in { j \in CompanyQuestionBoxes :
                                    /\ visitValues[j] = ""
                                    /\ NarrativeAvailable
                                    /\ controls[j].value = flatValue(flatDetails, "whyCompany").s } }

\* The keys of the profile whose value chose the option of a select.
KeysAppliedToSelects ==
  { matchField(selectIdentifier(selects[i])) :
      i \in { j \in 1..Len(selects) :
                /\ selects[j].selected # 0
                /\ matchField(selectIdentifier(selects[j])) # null
                /\ truthy(flatValue(flatDetails, matchField(selectIdentifier(selects[j]))))
                /\ selects[j].selected
                     = selectOption(selects[j].options,
                                    String(flatValue(flatDetails,
                                                     matchField(selectIdentifier(selects[j]))))) } }

(* C27: the fill summary counts the filled canonical keys: at the end of    *)
(* fillForm the filled set holds exactly the canonical keys whose profile   *)
(* value was applied to at least one control during the run, whatever the   *)
(* kind of the control (text input, textarea or select), each key once.     *)
C27_FilledSetIsAppliedKeys ==
  fillPc = "done" => filledFields = KeysAppliedToText \cup KeysAppliedToSelects

\* The passes every fillForm has, in the order the variant runs them.
corePasses(variant) ==
  SelectSeq(passOrder(variant),
            LAMBDA p : p \in { "textInputs", "textareas", "selects", "checks", "upload" })

(* C28: the pass order is fixed and applied consistently: every fillForm of *)
(* the repository runs its passes in the same one ordering, text inputs,    *)
(* textareas, selects, checkboxes and radios with the file upload either    *)
(* last or first.                                                           *)
C28_OnePassOrder ==
  fillPc # "idle" =>
    /\ corePasses(fillerVariant)
         \in { << "textInputs", "textareas", "selects", "checks", "upload" >>,
               << "upload", "textInputs", "textareas", "selects", "checks" >> }
    /\ \A other \in { "basic", "current", "enhanced" } :
         corePasses(other) = corePasses(fillerVariant)
(* C29: applyToJob always completes by returning true or false for every    *)
(* job link: no failure of a page or browser operation inside it, those of  *)
(* its cleanup step included, reaches the run loop as an exception, and the *)
(* job tab it opened is closed before it returns.                           *)
C29_ApplyToJobAlwaysReturns ==
  /\ flowPc # "crashed"
  /\ flowPc = "returned" => job.result \in { "true", "false" }

(* C30: option matching selects only a genuinely matching option: the       *)
(* option selectOption or selectRadioByText chooses for a non-empty answer  *)
(* is the first, in document order, whose non-empty text and the answer     *)
(* contain one another, case ignored; an option or radio button whose label *)
(* text is empty is never chosen.                                           *)
C30_OnlyMatchingOptionChosen ==
  (surveyState.pc \in { "returning", "done" } /\ surveyPage.render \in { "radio", "select" })
    => \A i \in surveyState.selected :
         /\ surveyPage.options[i] # ""
         /\ \E answer \in { ethnicityRadioAnswers[a] : a \in 1..Len(ethnicityRadioAnswers) }
                          \cup { ethnicitySelectAnswers[a] : a \in 1..Len(ethnicitySelectAnswers) } :
              /\ \/ includes(toLowerCase(surveyPage.options[i]), toLowerCase(answer))
                 \/ includes(toLowerCase(answer), toLowerCase(surveyPage.options[i]))
              /\ \A j \in 1..(i - 1) :
                   \/ surveyPage.options[j] = ""
                   \/ /\ ~includes(toLowerCase(surveyPage.options[j]), toLowerCase(answer))
                      /\ ~includes(toLowerCase(answer), toLowerCase(surveyPage.options[j]))

====
